---- MODULE Spec2Model ----
(***************************************************************************)
(* Model of nyx's connection panel (nyx/panel/connection.py): the entry    *)
(* classifier, the sort keys, the usage counters and the polling thread.   *)
(*                                                                         *)
(* Conventions                                                             *)
(*  - A Python str is the sequence of its character codes, so that the     *)
(*    order of two strings is the lexicographic order Python uses.         *)
(*  - None is the empty sequence; the code only tests these values for     *)
(*    truth, and None and '' are both false.                               *)
(*  - A Python int that can exceed 2^31 (the IP_ADDRESS sort key) is kept  *)
(*    exactly, as three base-65536 limbs, most significant first.          *)
(*  - functools.lru_cache holds 128 results; the model's universe of       *)
(*    connections is smaller, so a cached entry is never evicted.          *)
(***************************************************************************)
EXTENDS Integers, Sequences, FiniteSets, TLC

\* ------------------------------------------------------------------ bounds
MaxConns == 1       \* longest connection list the resolver reports
MaxCircs == 1       \* longest circuit list the controller reports
MaxRuns == 1        \* the resolver's run counter stops growing here
MaxSeed == 2        \* most entries of a CountrySummary
MaxHeld == 2        \* how often one thread comes to hold valsLock at once

\* --------------------------------------------------------------- constants
UPDATE_RATE == 5

Category == <<"INBOUND", "OUTBOUND", "EXIT", "HIDDEN", "SOCKS", "CIRCUIT", "DIRECTORY", "CONTROL">>

SortAttr == <<"CATEGORY", "UPTIME", "IP_ADDRESS", "PORT", "FINGERPRINT", "NICKNAME", "COUNTRY">>

LineType == <<"CONNECTION", "CIRCUIT_HEADER", "CIRCUIT">>

\* stem.util.enum.Enum.index_of: the position in declaration order, from 0
index_of(cat) == (CHOOSE i \in 1..Len(Category) : Category[i] = cat) - 1

None == <<>>

\* 'z' * 20
at_end == [i \in 1..20 |-> 122]

\* '<scrubbed>'
SCRUBBED == <<60, 115, 99, 114, 117, 98, 98, 101, 100, 62>>

\* ------------------------------------------------------- exact arithmetic
Base == 65536

\* v * 255 + a on three limbs
Mul255Add(v, a) ==
  LET t3 == v[3] * 255 + a
      t2 == v[2] * 255 + (t3 \div Base)
      t1 == v[1] * 255 + (t2 \div Base)
  IN  <<t1, t2 % Base, t3 % Base>>

\* v * 65536 + a on three limbs (v below 2^32)
Mul65536Add(v, a) ==
  LET t2 == v[3] + (a \div Base)
      t1 == v[1] * Base + v[2] + (t2 \div Base)
  IN  <<t1, t2 % Base, a % Base>>

\* 255 ** 4
Pow255_4 == Mul255Add(Mul255Add(Mul255Add(Mul255Add(<<0, 0, 1>>, 0), 0), 0), 0)

\* ------------------------------------------------- order of Python values
Min2(a, b) == IF a < b THEN a ELSE b

\* a < b for two strings, or for two ints of equal limb count
SeqLt(a, b) ==
  \/ \E i \in 1..Min2(Len(a), Len(b)) :
        a[i] < b[i] /\ \A j \in 1..(i - 1) : a[j] = b[j]
  \/ Len(a) < Len(b) /\ \A j \in 1..Len(a) : a[j] = b[j]

\* ka < kb for two key lists of the same length
ListLt(ka, kb) ==
  \E i \in 1..Min2(Len(ka), Len(kb)) :
     SeqLt(ka[i], kb[i]) /\ \A j \in 1..(i - 1) : ka[j] = kb[j]

\* ---------------------------------------------------------------- universe
\* fingerprints, nicknames and locales, as strings
FpA == <<65, 65>>
FpB == <<66, 66>>
NickA == <<97>>
LocaleUs == <<117, 115>>
LocaleDe == <<100, 101>>

AddrRelayA == <<10, 0, 0, 1>>
AddrRelayB == <<10, 0, 0, 2>>
AddrClient == <<5, 6, 7, 8>>
AddrClient2 == <<5, 6, 7, 9>>

\* the consensus tracker's relays: address, ORPort, fingerprint, nickname
Relays ==
  { [address |-> AddrRelayA, or_port |-> 9001, fingerprint |-> FpA, nickname |-> NickA],
    [address |-> AddrRelayB, or_port |-> 443, fingerprint |-> FpB, nickname |-> None] }

\* tor's answer to GETINFO ip-to-country/<address>
ip_to_country(address) ==
  CASE address = AddrRelayA -> LocaleDe
    [] address = AddrClient -> LocaleUs
    [] address = AddrClient2 -> LocaleUs
    [] OTHER -> None

\* nyx.tracker.Connection
Conn(start, lport, raddr, rport, proto) ==
  [start_time |-> start, local_port |-> lport, remote_address |-> raddr,
   remote_port |-> rport, protocol |-> proto]

ConnExit == Conn(1, 34567, AddrClient, 80, "tcp")
ConnRelay == Conn(2, 34569, AddrRelayA, 9001, "tcp")
ConnInbound == Conn(1, 9001, AddrClient2, 40000, "tcp")

Connections == {ConnExit, ConnRelay, ConnInbound}

\* stem.response.events.CircuitEvent as get_circuits() returns it
Circ(id, status, path, created) ==
  [id |-> id, status |-> status, path |-> path, created |-> created]

\* circuit 1 at three moments of its life, and an established client circuit
CircLaunched == Circ(1, "LAUNCHED", <<>>, 1)
CircDirExtended == Circ(1, "EXTENDED", <<<<FpA, NickA>>>>, 1)
CircDirBuilt == Circ(1, "BUILT", <<<<FpA, NickA>>>>, 1)
CircClient == Circ(2, "BUILT", <<<<FpB, None>>, <<FpA, NickA>>>>, 1)

\* the circuits the poller meets: one hop being built, one hop built, two hops built
Circuits == {CircDirExtended, CircDirBuilt, CircClient}

RECURSIVE SeqsUpTo(_, _)
\* the sequences over S of length at most n
SeqsUpTo(S, n) ==
  IF n = 0 THEN {<<>>}
  ELSE LET shorter == SeqsUpTo(S, n - 1)
       IN  shorter \cup {Append(s, x) : s \in shorter, x \in S}

Distinct(s) == \A i, j \in 1..Len(s) : i # j => s[i] # s[j]

\* what the connection resolver can report: distinct connections
ConnLists == {s \in SeqsUpTo(Connections, MaxConns) : Distinct(s)}

\* what get_circuits() can report: circuits with distinct ids
CircLists ==
  {s \in SeqsUpTo(Circuits, MaxCircs) : \A i, j \in 1..Len(s) : i # j => s[i].id # s[j].id}

\* what get_hidden_service_conf() can report: per service directory its
\* options, HiddenServicePort being the collection of the service's ports
HsConfs == {<<>>, [d \in {"hs1"} |-> [HiddenServicePort |-> {80}]]}

\* ------------------------------------------------------------------- state
VARIABLES
  controller,               \* tor_controller(): listener ports, exit policy, user traffic
                            \* policy, hidden services
  controller_alive,         \* tor_controller().is_alive()
  CONFIG,                   \* features.connection.showIps / resolveApps
  resolver,                 \* nyx.tracker.get_connection_tracker(): is_alive, run_counter
  paused,                   \* Panel.is_paused()
  LAST_RETRIEVED_CIRCUITS,  \* module global
  LAST_RETRIEVED_HS_CONF,   \* module global
  entry_cache,              \* lru_cache of Entry.from_connection and of the entry's methods
  _entries,
  _sort_order,
  _last_resource_fetch,
  _halt,
  _client_locale_usage,
  _exit_port_usage,
  _counted_connections,
  pc,                       \* where the thread is in run()
  elapsed,                  \* time.time() - last_ran in seconds, saturating at UPDATE_RATE
  new_entries,              \* _update's local, while a cycle uses it
  current_resolution_count, \* _update's local, while a cycle uses it
  port_queries,             \* the calls of get_port_usage_tracker().query so far
  increments,               \* per Connection, how often lines 677/679 ran for it
  probe,                    \* a connection classified on its own, and the result
  dialog,                   \* show_sort_dialog in the interface's thread: where it is, and
                            \* the sorted list it has evaluated
  sorted_entries,           \* the value of sorted(...) of line 683 before it is stored
  cycle_lists,              \* the new_entries of the cycles that came to line 683, in turn
  seed,                     \* GETINFO status/clients-seen, and what __init__ made of it
  torrc,                    \* the Torrc singleton of util/torrc.py, its lock, and what the last call gave
  compared                  \* two entries and the IP_ADDRESS sort values taken of them

vars == <<controller, controller_alive, CONFIG, resolver, paused,
          LAST_RETRIEVED_CIRCUITS, LAST_RETRIEVED_HS_CONF, entry_cache,
          _entries, _sort_order, _last_resource_fetch, _halt,
          _client_locale_usage, _exit_port_usage, _counted_connections,
          pc, elapsed, new_entries, current_resolution_count, port_queries,
          increments, probe, dialog, sorted_entries, cycle_lists, seed, torrc, compared>>

\* -------------------------------------------------------------- collaborators
\* controller.get_ports(listener, [])
get_ports(listener) == controller.ports[listener]

\* controller.get_hidden_service_conf({}): torrc's hidden services
get_hidden_service_conf == controller.hidden_service_conf

\* exit_policy.can_exit_to(address, port), for a policy of accept *:port rules
can_exit_to(policy, address, port) == port \in policy.accept

\* get_consensus_tracker().get_relay_fingerprints(address): ORPort -> fingerprint
get_relay_fingerprints(address) ==
  LET here == {r \in Relays : r.address = address}
  IN  [p \in {r.or_port : r \in here} |->
         (CHOOSE r \in here : r.or_port = p).fingerprint]

\* dict.get(key, 0)
DictGet0(d, key) == IF key \in DOMAIN d THEN d[key] ELSE 0

\* dict.get(key): the value, or None
DictGet(d, key) == IF key \in DOMAIN d THEN d[key] ELSE None

\* get_consensus_tracker().get_relay_nickname(fingerprint)
get_relay_nickname(fingerprint) ==
  IF \E r \in Relays : r.fingerprint = fingerprint
  THEN (CHOOSE r \in Relays : r.fingerprint = fingerprint).nickname
  ELSE None

\* get_consensus_tracker().get_relay_address(fingerprint, default)
get_relay_address(fingerprint, default) ==
  IF \E r \in Relays : r.fingerprint = fingerprint
  THEN LET r == CHOOSE r \in Relays : r.fingerprint = fingerprint
       IN  <<r.address, r.or_port>>
  ELSE default

\* remote_port == hs_config['HiddenServicePort']: an int compared with the
\* collection of a service's ports, which Python never finds equal
PortEqualsOption(port, option) == FALSE

\* ------------------------------------------------------------------ Classifier
\* get_type with the control listener tried before the SOCKS listener
get_type_control_first(conn, circuits, hs_conf) ==
  IF conn.local_port \in get_ports("OR") THEN "INBOUND"
  ELSE IF conn.local_port \in get_ports("DIR") THEN "INBOUND"
  ELSE IF conn.local_port \in get_ports("CONTROL") THEN "CONTROL"
  ELSE IF conn.local_port \in get_ports("SOCKS") THEN "SOCKS"
  ELSE LET fingerprint == DictGet(get_relay_fingerprints(conn.remote_address), conn.remote_port)
       IN  IF fingerprint # None /\ circuits # <<>>
           THEN IF \E i \in 1..Len(circuits) :
                      /\ circuits[i].path # <<>>
                      /\ Len(circuits[i].path) = 1
                      /\ circuits[i].path[1][1] = fingerprint
                      /\ circuits[i].status = "BUILT"
                THEN "DIRECTORY"
                ELSE "OUTBOUND"
           ELSE IF /\ controller.exit_policy.defined
                   /\ can_exit_to(controller.exit_policy, conn.remote_address, conn.remote_port)
                THEN "EXIT"
                ELSE "OUTBOUND"

\* get_type with the exit policy consulted only while no circuit is known
get_type_exit_without_circuits(conn, circuits, hs_conf) ==
  IF conn.local_port \in get_ports("OR") THEN "INBOUND"
  ELSE IF conn.local_port \in get_ports("DIR") THEN "INBOUND"
  ELSE IF conn.local_port \in get_ports("SOCKS") THEN "SOCKS"
  ELSE IF conn.local_port \in get_ports("CONTROL") THEN "CONTROL"
  ELSE LET fingerprint == DictGet(get_relay_fingerprints(conn.remote_address), conn.remote_port)
       IN  IF circuits # <<>>
           THEN IF /\ fingerprint # None
                   /\ \E i \in 1..Len(circuits) :
                         /\ circuits[i].path # <<>>
                         /\ Len(circuits[i].path) = 1
                         /\ circuits[i].path[1][1] = fingerprint
                         /\ circuits[i].status = "BUILT"
                THEN "DIRECTORY"
                ELSE "OUTBOUND"
           ELSE IF /\ controller.exit_policy.defined
                   /\ can_exit_to(controller.exit_policy, conn.remote_address, conn.remote_port)
                THEN "EXIT"
                ELSE "OUTBOUND"

\* get_type with a DIRECTORY rule that asks only for a circuit ending at the relay
get_type_any_circuit_to(conn, circuits, hs_conf) ==
  IF conn.local_port \in get_ports("OR") THEN "INBOUND"
  ELSE IF conn.local_port \in get_ports("DIR") THEN "INBOUND"
  ELSE IF conn.local_port \in get_ports("SOCKS") THEN "SOCKS"
  ELSE IF conn.local_port \in get_ports("CONTROL") THEN "CONTROL"
  ELSE IF /\ DOMAIN hs_conf # {}
          /\ \E d \in DOMAIN hs_conf :
                PortEqualsOption(conn.remote_port, hs_conf[d].HiddenServicePort)
       THEN "HIDDEN"
  ELSE LET fingerprint == DictGet(get_relay_fingerprints(conn.remote_address), conn.remote_port)
       IN  IF fingerprint # None /\ circuits # <<>>
           THEN IF \E i \in 1..Len(circuits) :
                      /\ circuits[i].path # <<>>
                      /\ circuits[i].path[Len(circuits[i].path)][1] = fingerprint
                THEN "DIRECTORY"
                ELSE "OUTBOUND"
           ELSE IF /\ controller.exit_policy.defined
                   /\ can_exit_to(controller.exit_policy, conn.remote_address, conn.remote_port)
                THEN "EXIT"
                ELSE "OUTBOUND"

\* ConnectionEntry.get_type, against the given circuit list and hidden
\* service configuration (the two module globals at the time of the call)
get_type(conn, circuits, hs_conf) ==
  IF conn.local_port \in get_ports("OR") THEN "INBOUND"
  ELSE IF conn.local_port \in get_ports("DIR") THEN "INBOUND"
  ELSE IF conn.local_port \in get_ports("SOCKS") THEN "SOCKS"
  ELSE IF conn.local_port \in get_ports("CONTROL") THEN "CONTROL"
  ELSE IF /\ DOMAIN hs_conf # {}
          /\ \E d \in DOMAIN hs_conf :
                PortEqualsOption(conn.remote_port, hs_conf[d].HiddenServicePort)
       THEN "HIDDEN"
  ELSE LET fingerprint == DictGet(get_relay_fingerprints(conn.remote_address), conn.remote_port)
       IN  IF fingerprint # None /\ circuits # <<>>
           THEN IF \E i \in 1..Len(circuits) :
                      /\ circuits[i].path # <<>>
                      /\ Len(circuits[i].path) = 1
                      /\ circuits[i].path[1][1] = fingerprint
                      /\ circuits[i].status = "BUILT"
                THEN "DIRECTORY"
                ELSE "OUTBOUND"
           ELSE IF /\ controller.exit_policy.defined
                   /\ can_exit_to(controller.exit_policy, conn.remote_address, conn.remote_port)
                THEN "EXIT"
                ELSE "OUTBOUND"

\* is_private without the test of the user traffic policy
is_private_of_any_inbound(conn, type) ==
  IF ~CONFIG.showIps THEN TRUE
  ELSE IF type = "INBOUND"
       THEN DOMAIN get_relay_fingerprints(conn.remote_address) = {}
  ELSE IF type = "EXIT"
       THEN ~(conn.remote_port = 53 /\ conn.protocol = "udp")
  ELSE FALSE

\* ConnectionEntry.is_private, given the entry's (cached) category
is_private(conn, type) ==
  IF ~CONFIG.showIps THEN TRUE
  ELSE IF type = "INBOUND"
       THEN IF controller.inbound
            THEN DOMAIN get_relay_fingerprints(conn.remote_address) = {}
            ELSE FALSE
  ELSE IF type = "EXIT"
       THEN ~(conn.remote_port = 53 /\ conn.protocol = "udp")
  ELSE FALSE

\* the Line namedtuple (its entry is the holder of the line)
Line(line_type, connection, circuit, fingerprint, nickname, locale) ==
  [line_type |-> line_type, connection |-> connection, circuit |-> circuit,
   fingerprint |-> fingerprint, nickname |-> nickname, locale |-> locale]

\* ConnectionEntry.get_lines, given the entry's (cached) category
ConnectionEntry_get_lines(conn, type) ==
  LET known == type \in {"OUTBOUND", "CIRCUIT", "DIRECTORY", "EXIT"}
      fingerprint == IF known
                     THEN DictGet(get_relay_fingerprints(conn.remote_address), conn.remote_port)
                     ELSE None
      found == fingerprint # None
  IN  << Line("CONNECTION", conn, None,
              fingerprint,
              IF found THEN get_relay_nickname(fingerprint) ELSE None,
              IF found THEN ip_to_country(conn.remote_address) ELSE None) >>

\* the inner line() of CircuitEntry.get_lines
CircuitEntry_line(circuit, fingerprint, line_type) ==
  LET at == IF fingerprint # None
            THEN get_relay_address(fingerprint, <<<<192, 168, 0, 1>>, 0>>)
            ELSE <<<<0, 0, 0, 0>>, 0>>
      connection == [start_time |-> circuit.created, local_port |-> 0,
                     remote_address |-> at[1], remote_port |-> at[2], protocol |-> "tcp"]
  IN  Line(line_type, connection, circuit, fingerprint,
           IF fingerprint # None THEN get_relay_nickname(fingerprint) ELSE None,
           IF fingerprint # None THEN ip_to_country(at[1]) ELSE None)

\* CircuitEntry.get_lines (path[-1] of a path with a hop)
CircuitEntry_get_lines(circuit) ==
  LET header == CircuitEntry_line(circuit,
                   IF circuit.status = "BUILT"
                   THEN circuit.path[Len(circuit.path)][1] ELSE None,
                   "CIRCUIT_HEADER")
  IN  <<header>> \o [i \in 1..Len(circuit.path) |->
                       CircuitEntry_line(circuit, circuit.path[i][1], "CIRCUIT")]

\* ---------------------------------------------------------------- entries
\* Entry.from_connection / Entry.from_circuit: an entry is its snapshot; what
\* a ConnectionEntry's methods return is what entry_cache holds for it
ConnectionEntry(conn) == [kind |-> "connection", of |-> conn]

CircuitEntry(circuit) == [kind |-> "circuit", of |-> circuit]

\* entry.get_lines() raises: CircuitEntry.get_lines takes path[-1] of a BUILT
\* circuit, an IndexError when the path is empty
Raises(e) == e.kind = "circuit" /\ e.of.status = "BUILT" /\ e.of.path = <<>>

\* entry.get_type() under the cache c
EntryType(c, e) == IF e.kind = "circuit" THEN "CIRCUIT" ELSE c[e.of].type

\* entry.is_private() under the cache c
EntryPrivate(c, e) == IF e.kind = "circuit" THEN FALSE ELSE c[e.of].private

\* entry.get_lines() under the cache c
EntryLines(c, e) == IF e.kind = "circuit" THEN CircuitEntry_get_lines(e.of) ELSE c[e.of].lines

\* the first call of the three cached methods of a new ConnectionEntry
Classified(conn, circuits, hs_conf) ==
  LET type == get_type(conn, circuits, hs_conf)
  IN  [type |-> type, private |-> is_private(conn, type),
       lines |-> ConnectionEntry_get_lines(conn, type)]

\* the cache after Entry.from_connection was called for each of conns
CacheAfter(c, conns, circuits, hs_conf) ==
  [k \in DOMAIN c \cup {conns[i] : i \in 1..Len(conns)} |->
     IF k \in DOMAIN c THEN c[k] ELSE Classified(k, circuits, hs_conf)]

\* ------------------------------------------------------------------ drawing
\* 'Building...'
BUILDING == <<66, 117, 105, 108, 100, 105, 110, 103, 46, 46, 46>>

\* '??'
UNKNOWN_LOCALE == <<63, 63>>

\* tor's answer to GETINFO address: the relay's own address
OwnAddress == <<192, 0, 2, 1>>

\* stem.util.connection.port_usage(port): 'HTTP', 'HTTPS', 'DNS', or None
port_usage(port) ==
  CASE port = 80 -> <<72, 84, 84, 80>>
    [] port = 443 -> <<72, 84, 84, 80, 83>>
    [] port = 53 -> <<68, 78, 83>>
    [] OTHER -> None

\* _draw_address_column without the test of is_private()
draw_address_column_raw(c, e, line) ==
  LET src == [address |-> OwnAddress,
              port |-> IF line.line_type = "CONNECTION"
                       THEN <<line.connection.local_port>> ELSE None,
              note |-> None]
      dst == [address |-> line.connection.remote_address,
              port |-> <<line.connection.remote_port>>,
              note |-> None]
  IN  IF EntryType(c, e) \in {"INBOUND", "SOCKS", "CONTROL"}
      THEN [left |-> dst, right |-> src]
      ELSE [left |-> src, right |-> dst]

\* _draw_address_column: the two columns of the row of one line of entry e,
\* each with its address, its port and what follows in brackets
draw_address_column(c, e, line) ==
  LET src == [address |-> OwnAddress,
              port |-> IF line.line_type = "CONNECTION"
                       THEN <<line.connection.local_port>> ELSE None,
              note |-> None]
      dst == IF line.line_type = "CIRCUIT_HEADER" /\ line.circuit.status # "BUILT"
             THEN [address |-> BUILDING, port |-> None, note |-> None]
             ELSE [address |-> IF EntryPrivate(c, e) THEN SCRUBBED
                               ELSE line.connection.remote_address,
                   port |-> <<line.connection.remote_port>>,
                   note |-> IF EntryType(c, e) = "EXIT"
                            THEN port_usage(line.connection.remote_port)
                            ELSE IF ~EntryPrivate(c, e)
                                 THEN (IF line.locale # None THEN line.locale
                                       ELSE UNKNOWN_LOCALE)
                                 ELSE None]
  IN  IF EntryType(c, e) \in {"INBOUND", "SOCKS", "CONTROL"}
      THEN [left |-> dst, right |-> src]
      ELSE IF line.line_type = "CIRCUIT"
           THEN [left |-> dst, right |-> dst]
           ELSE [left |-> src, right |-> dst]

\* --------------------------------------------------------------- Sort Engine
RECURSIVE ip_value(_, _)
\* the loop of lines 139-142 over the first n octets of address.split('.')
ip_value(octets, n) ==
  IF n = 0 THEN <<0, 0, 0>>
  ELSE Mul255Add(ip_value(octets, n - 1), octets[n])

\* Entry.sort_value under the cache c
sort_value(c, e, attr) ==
  LET line == EntryLines(c, e)[1]
  IN  CASE attr = "IP_ADDRESS" ->
             IF EntryPrivate(c, e) THEN Pow255_4
             ELSE Mul65536Add(ip_value(line.connection.remote_address,
                                       Len(line.connection.remote_address)),
                              line.connection.remote_port)
        [] attr = "PORT" -> <<line.connection.remote_port>>
        [] attr = "FINGERPRINT" -> IF line.fingerprint # None THEN line.fingerprint ELSE at_end
        [] attr = "NICKNAME" -> IF line.nickname # None THEN line.nickname ELSE at_end
        [] attr = "CATEGORY" -> <<index_of(EntryType(c, e))>>
        [] attr = "UPTIME" -> <<line.connection.start_time>>
        [] attr = "COUNTRY" ->
             IF line.locale # None /\ ~EntryPrivate(c, e) THEN line.locale ELSE at_end
        [] OTHER -> <<>>

RECURSIVE SortKeyTo(_, _, _, _)
\* [entry.sort_value(attr) for attr in order[:n]]
SortKeyTo(c, e, order, n) ==
  IF n = 0 THEN <<>>
  ELSE Append(SortKeyTo(c, e, order, n - 1), sort_value(c, e, order[n]))

\* key = lambda entry: [entry.sort_value(attr) for attr in self._sort_order]
SortKey(c, e, order) == SortKeyTo(c, e, order, Len(order))

RECURSIVE Keyed(_, _, _, _)
\* sorted() calls key once per element: the pairs <<key, element>> of s[1..n]
Keyed(c, s, n, order) ==
  IF n = 0 THEN <<>>
  ELSE Append(Keyed(c, s, n - 1, order), <<SortKey(c, s[n], order), s[n]>>)

\* an insertion that puts a pair before those of an equal key
InsertBeforeEquals(s, x) ==
  LET notbelow == {i \in 1..Len(s) : ~ListLt(s[i][1], x[1])}
      at == IF notbelow = {} THEN Len(s) + 1
            ELSE CHOOSE i \in notbelow : \A j \in notbelow : i <= j
  IN  SubSeq(s, 1, at - 1) \o <<x>> \o SubSeq(s, at, Len(s))

\* one pair put into an ordered list behind every pair whose key is not above its key
Insert(s, x) ==
  LET above == {i \in 1..Len(s) : ListLt(x[1], s[i][1])}
      at == IF above = {} THEN Len(s) + 1
            ELSE CHOOSE i \in above : \A j \in above : i <= j
  IN  SubSeq(s, 1, at - 1) \o <<x>> \o SubSeq(s, at, Len(s))

RECURSIVE SortKeyed(_, _)
\* the first n pairs of k in the order of their keys: Python's sort is stable
SortKeyed(k, n) ==
  IF n = 0 THEN <<>>
  ELSE Insert(SortKeyed(k, n - 1), k[n])

RECURSIVE Elements(_, _)
\* the elements of the first n pairs of k
Elements(k, n) ==
  IF n = 0 THEN <<>>
  ELSE Append(Elements(k, n - 1), k[n][2])

\* sorted(s[1..n], key = ...)
sorted(c, s, n, order) == Elements(SortKeyed(Keyed(c, s, n, order), n), n)

\* ------------------------------------------------------------ Usage Aggregator
\* dict.get(key, 0) + 1 stored under key
Incremented(d, key) ==
  [k \in DOMAIN d \cup {key} |-> IF k = key THEN DictGet0(d, key) + 1 ELSE d[k]]

\* the loop body without the test of _counted_connections
CountEntryAgain(c, u, e) ==
  LET line == EntryLines(c, e)[1]
      type == EntryType(c, e)
  IN  IF EntryPrivate(c, e)
      THEN [locale |-> IF type = "INBOUND" /\ line.locale # None
                       THEN Incremented(u.locale, line.locale) ELSE u.locale,
            exit_port |-> IF ~(type = "INBOUND" /\ line.locale # None) /\ type = "EXIT"
                          THEN Incremented(u.exit_port, line.connection.remote_port)
                          ELSE u.exit_port,
            counted |-> u.counted \cup {line.connection},
            incremented |-> IF \/ type = "INBOUND" /\ line.locale # None
                               \/ type = "EXIT"
                            THEN [u.incremented EXCEPT ![line.connection] = @ + 1]
                            ELSE u.incremented]
      ELSE u

\* the loop body without the test of is_private()
CountEntryOfAny(c, u, e) ==
  LET line == EntryLines(c, e)[1]
      type == EntryType(c, e)
  IN  IF line.connection \notin u.counted
      THEN [locale |-> IF type = "INBOUND" /\ line.locale # None
                       THEN Incremented(u.locale, line.locale) ELSE u.locale,
            exit_port |-> IF ~(type = "INBOUND" /\ line.locale # None) /\ type = "EXIT"
                          THEN Incremented(u.exit_port, line.connection.remote_port)
                          ELSE u.exit_port,
            counted |-> u.counted \cup {line.connection},
            incremented |-> IF \/ type = "INBOUND" /\ line.locale # None
                               \/ type = "EXIT"
                            THEN [u.incremented EXCEPT ![line.connection] = @ + 1]
                            ELSE u.incremented]
      ELSE u

\* the loop body with line 681 under the two tests of lines 676 and 678
CountEntryWhenIncremented(c, u, e) ==
  LET line == EntryLines(c, e)[1]
      type == EntryType(c, e)
      counts == (type = "INBOUND" /\ line.locale # None) \/ type = "EXIT"
  IN  IF EntryPrivate(c, e) /\ line.connection \notin u.counted /\ counts
      THEN [locale |-> IF type = "INBOUND" /\ line.locale # None
                       THEN Incremented(u.locale, line.locale) ELSE u.locale,
            exit_port |-> IF ~(type = "INBOUND" /\ line.locale # None) /\ type = "EXIT"
                          THEN Incremented(u.exit_port, line.connection.remote_port)
                          ELSE u.exit_port,
            counted |-> u.counted \cup {line.connection},
            incremented |-> [u.incremented EXCEPT ![line.connection] = @ + 1]]
      ELSE u

\* the body of the loop of lines 672-681 for one entry; u is the usage state
CountEntry(c, u, e) ==
  LET line == EntryLines(c, e)[1]
      type == EntryType(c, e)
  IN  IF EntryPrivate(c, e) /\ line.connection \notin u.counted
      THEN [locale |-> IF type = "INBOUND" /\ line.locale # None
                       THEN Incremented(u.locale, line.locale) ELSE u.locale,
            exit_port |-> IF ~(type = "INBOUND" /\ line.locale # None) /\ type = "EXIT"
                          THEN Incremented(u.exit_port, line.connection.remote_port)
                          ELSE u.exit_port,
            counted |-> u.counted \cup {line.connection},
            incremented |-> IF \/ type = "INBOUND" /\ line.locale # None
                               \/ type = "EXIT"
                            THEN [u.incremented EXCEPT ![line.connection] = @ + 1]
                            ELSE u.incremented]
      ELSE u

RECURSIVE CountEntries(_, _, _, _)
\* the loop of lines 672-681 over the first n entries
CountEntries(c, u, entries, n) ==
  IF n = 0 THEN u
  ELSE CountEntry(c, CountEntries(c, u, entries, n - 1), entries[n])

\* ------------------------------------------------------------- Update Poller
\* every circuit gets a CircuitEntry
IsAnyCircuit(circ) == TRUE

\* line 667: the circuits that get a CircuitEntry
IsListedCircuit(circ) == ~(circ.status = "BUILT" /\ Len(circ.path) = 1)

\* new_entries of lines 661-668
MergedEntries(conns, circuits) ==
  LET listed == SelectSeq(circuits, IsListedCircuit)
  IN  [i \in 1..Len(conns) |-> ConnectionEntry(conns[i])]
        \o [i \in 1..Len(listed) |-> CircuitEntry(listed[i])]

\* lines 687-697 taking each connection's port on its own side of the query
PortQueryOfOwnSide(c, entries) ==
  LET client == SelectSeq(entries, LAMBDA e : EntryType(c, e) \in {"SOCKS", "CONTROL"})
      hidden == SelectSeq(entries, LAMBDA e : EntryType(c, e) = "HIDDEN")
  IN  [local_ports |-> [i \in 1..Len(client) |-> EntryLines(c, client[i])[1].connection.local_port],
       remote_ports |-> [i \in 1..Len(hidden) |-> EntryLines(c, hidden[i])[1].connection.remote_port]]

\* the arguments of the query of lines 687-697
PortQuery(c, entries) ==
  LET client == SelectSeq(entries, LAMBDA e : EntryType(c, e) \in {"SOCKS", "CONTROL"})
      hidden == SelectSeq(entries, LAMBDA e : EntryType(c, e) = "HIDDEN")
  IN  [local_ports |-> [i \in 1..Len(client) |-> EntryLines(c, client[i])[1].connection.remote_port],
       remote_ports |-> [i \in 1..Len(hidden) |-> EntryLines(c, hidden[i])[1].connection.local_port]]

\* _update returned; run() redraws and sets last_ran = time.time()
Ran == pc' = "loop" /\ elapsed' = 0

\* lines 327-328 as a loop that tests _halt only where it would wait
RunCheckCycleFirst ==
  /\ pc = "loop"
  /\ pc' = IF paused \/ ~controller_alive \/ elapsed < UPDATE_RATE
           THEN (IF _halt THEN "done" ELSE "wait")
           ELSE "update"
  /\ UNCHANGED <<controller, controller_alive, CONFIG, resolver, paused,
                 LAST_RETRIEVED_CIRCUITS, LAST_RETRIEVED_HS_CONF, entry_cache,
                 _entries, _sort_order, _last_resource_fetch, _halt,
                 _client_locale_usage, _exit_port_usage, _counted_connections,
                 elapsed, new_entries, current_resolution_count, port_queries,
                 increments, probe, dialog, sorted_entries, cycle_lists, seed, torrc, compared>>

\* lines 327-328 with a test that leaves is_paused() out
RunCheckWhilePaused ==
  /\ pc = "loop"
  /\ pc' = IF _halt THEN "done"
           ELSE IF ~controller_alive \/ elapsed < UPDATE_RATE THEN "wait"
           ELSE "update"
  /\ UNCHANGED <<controller, controller_alive, CONFIG, resolver, paused,
                 LAST_RETRIEVED_CIRCUITS, LAST_RETRIEVED_HS_CONF,
                 entry_cache, _entries, _sort_order, _last_resource_fetch,
                 _halt, _client_locale_usage, _exit_port_usage,
                 _counted_connections, elapsed, new_entries,
                 current_resolution_count, port_queries, increments, probe,
                 dialog, sorted_entries, cycle_lists, seed, torrc, compared>>

\* run(), lines 327-328: the loop condition and the test for a cycle
RunCheck ==
  /\ pc = "loop"
  /\ pc' = IF _halt THEN "done"
           ELSE IF paused \/ ~controller_alive \/ elapsed < UPDATE_RATE THEN "wait"
           ELSE "update"
  /\ UNCHANGED <<controller, controller_alive, CONFIG, resolver, paused,
                 LAST_RETRIEVED_CIRCUITS, LAST_RETRIEVED_HS_CONF, entry_cache,
                 _entries, _sort_order, _last_resource_fetch, _halt,
                 _client_locale_usage, _exit_port_usage, _counted_connections,
                 elapsed, new_entries, current_resolution_count, port_queries,
                 increments, probe,
                 dialog, sorted_entries, cycle_lists, seed, torrc, compared>>

\* lines 329-333 with a wait whatever _halt is
RunWaitRegardless ==
  /\ pc = "wait"
  /\ pc' = "loop"
  /\ elapsed' \in {elapsed, UPDATE_RATE}
  /\ UNCHANGED <<controller, controller_alive, CONFIG, resolver, paused,
                 LAST_RETRIEVED_CIRCUITS, LAST_RETRIEVED_HS_CONF, entry_cache,
                 _entries, _sort_order, _last_resource_fetch, _halt,
                 _client_locale_usage, _exit_port_usage, _counted_connections,
                 new_entries, current_resolution_count, port_queries,
                 increments, probe, dialog, sorted_entries, cycle_lists, seed, torrc, compared>>

\* run(), lines 329-333: under the condition's lock, wait(0.2) unless
\* halted, then try again; the wait is where time passes, and the refresh is
\* due after enough of them
RunWait ==
  /\ pc = "wait"
  /\ pc' = "loop"
  /\ elapsed' \in IF _halt THEN {elapsed} ELSE {elapsed, UPDATE_RATE}
  /\ UNCHANGED <<controller, controller_alive, CONFIG, resolver, paused,
                 LAST_RETRIEVED_CIRCUITS, LAST_RETRIEVED_HS_CONF, entry_cache,
                 _entries, _sort_order, _last_resource_fetch, _halt,
                 _client_locale_usage, _exit_port_usage, _counted_connections,
                 new_entries, current_resolution_count, port_queries,
                 increments, probe,
                 dialog, sorted_entries, cycle_lists, seed, torrc, compared>>

\* an early return that still records the resolver's run counter
UpdateSkipRecording ==
  /\ pc = "update"
  /\ \E circuits \in CircLists :
       LAST_RETRIEVED_CIRCUITS' = circuits
  /\ LAST_RETRIEVED_HS_CONF' = get_hidden_service_conf
  /\ ~resolver.alive \/ resolver.run_counter = _last_resource_fetch
  /\ _last_resource_fetch' = resolver.run_counter
  /\ Ran
  /\ UNCHANGED <<controller, controller_alive, CONFIG, resolver, paused, entry_cache,
                 _entries, _sort_order, _halt,
                 _client_locale_usage, _exit_port_usage, _counted_connections,
                 new_entries, current_resolution_count, port_queries, increments, probe,
                 dialog, sorted_entries, cycle_lists, seed, torrc, compared>>

\* _update, lines 647-659, when it returns early; circ_lists is what
\* get_circuits([]) can answer
UpdateSkipFrom(circ_lists) ==
  /\ pc = "update"
  /\ \E circuits \in circ_lists :
       LAST_RETRIEVED_CIRCUITS' = circuits
  /\ LAST_RETRIEVED_HS_CONF' = get_hidden_service_conf
  /\ ~resolver.alive \/ resolver.run_counter = _last_resource_fetch
  /\ Ran
  /\ UNCHANGED <<controller, controller_alive, CONFIG, resolver, paused, entry_cache,
                 _entries, _sort_order, _last_resource_fetch, _halt,
                 _client_locale_usage, _exit_port_usage, _counted_connections,
                 new_entries, current_resolution_count, port_queries, increments, probe,
                 dialog, sorted_entries, cycle_lists, seed, torrc, compared>>

UpdateSkip == UpdateSkipFrom(CircLists)

\* _update, lines 647-681: fetch, build the entries, count them; conn_lists
\* is what the resolver's get_value() can answer
UpdateBuildFrom(circ_lists, conn_lists) ==
  /\ pc = "update"
  /\ resolver.alive /\ resolver.run_counter # _last_resource_fetch
  /\ \E circuits \in circ_lists, conns \in conn_lists :
       \E cache \in {CacheAfter(entry_cache, conns, circuits, get_hidden_service_conf)},
          merged \in {e \in {MergedEntries(conns, circuits)} :
                        \A i \in 1..Len(e) : ~Raises(e[i])} :
       \E usage \in {CountEntries(cache,
                                  [locale |-> _client_locale_usage,
                                   exit_port |-> _exit_port_usage,
                                   counted |-> _counted_connections,
                                   incremented |-> increments],
                                  merged, Len(merged))} :
           /\ LAST_RETRIEVED_CIRCUITS' = circuits
           /\ LAST_RETRIEVED_HS_CONF' = get_hidden_service_conf
           /\ entry_cache' = cache
           /\ new_entries' = merged
           /\ _client_locale_usage' = usage.locale
           /\ _exit_port_usage' = usage.exit_port
           /\ _counted_connections' = usage.counted
           /\ increments' = usage.incremented
  /\ current_resolution_count' = resolver.run_counter
  /\ pc' = "publish"
  /\ UNCHANGED <<controller, controller_alive, CONFIG, resolver, paused,
                 _entries, _sort_order, _last_resource_fetch, _halt,
                 elapsed, port_queries, probe,
                 dialog, sorted_entries, cycle_lists, seed, torrc, compared>>

UpdateBuild == UpdateBuildFrom(CircLists, ConnLists)

\* _update, lines 683-697: sort, publish, ask for the port usage
UpdatePublish ==
  /\ pc = "publish"
  /\ \E published \in {sorted(entry_cache, new_entries, Len(new_entries), _sort_order)} :
       _entries' = published
  /\ _last_resource_fetch' = current_resolution_count
  /\ \E query \in {PortQuery(entry_cache, new_entries)} :
       port_queries' = IF CONFIG.resolveApps
                       THEN [count |-> port_queries.count + 1, last |-> query]
                       ELSE port_queries
  /\ new_entries' = <<>>
  /\ Ran
  /\ UNCHANGED <<controller, controller_alive, CONFIG, resolver, paused,
                 LAST_RETRIEVED_CIRCUITS, LAST_RETRIEVED_HS_CONF, entry_cache,
                 _sort_order, _halt,
                 _client_locale_usage, _exit_port_usage, _counted_connections,
                 current_resolution_count, increments, probe,
                 dialog, sorted_entries, cycle_lists, seed, torrc, compared>>

\* ---------------------------------------------------------------- UI context
\* the orderings the sort dialog can return
SortOrders ==
  { <<"CATEGORY", "IP_ADDRESS", "UPTIME">>,
    <<"UPTIME", "COUNTRY", "NICKNAME">> }

\* show_sort_dialog, when the dialog returns an ordering; with the ordering
\* it was given, the sort of the sorted list changes nothing
show_sort_dialog ==
  /\ \E results \in SortOrders :
       /\ results # _sort_order
       /\ _sort_order' = results
       /\ _entries' = sorted(entry_cache, _entries, Len(_entries), results)
  /\ UNCHANGED <<controller, controller_alive, CONFIG, resolver, paused,
                 LAST_RETRIEVED_CIRCUITS, LAST_RETRIEVED_HS_CONF, entry_cache,
                 _last_resource_fetch, _halt,
                 _client_locale_usage, _exit_port_usage, _counted_connections,
                 pc, elapsed, new_entries, current_resolution_count, port_queries,
                 increments, probe,
                 dialog, sorted_entries, cycle_lists, seed, torrc, compared>>

\* stop(): the thread is told to end
stop ==
  /\ ~_halt
  /\ _halt' = TRUE
  /\ UNCHANGED <<controller, controller_alive, CONFIG, resolver, paused,
                 LAST_RETRIEVED_CIRCUITS, LAST_RETRIEVED_HS_CONF, entry_cache,
                 _entries, _sort_order, _last_resource_fetch,
                 _client_locale_usage, _exit_port_usage, _counted_connections,
                 pc, elapsed, new_entries, current_resolution_count, port_queries,
                 increments, probe,
                 dialog, sorted_entries, cycle_lists, seed, torrc, compared>>

\* ---------------------------------------------------------------- environment
\* the connection resolver finishes another resolution
ResolverRuns ==
  /\ resolver.alive
  /\ resolver.run_counter < MaxRuns
  /\ resolver' = [resolver EXCEPT !.run_counter = @ + 1]
  /\ UNCHANGED <<controller, controller_alive, CONFIG, paused,
                 LAST_RETRIEVED_CIRCUITS, LAST_RETRIEVED_HS_CONF, entry_cache,
                 _entries, _sort_order, _last_resource_fetch, _halt,
                 _client_locale_usage, _exit_port_usage, _counted_connections,
                 pc, elapsed, new_entries, current_resolution_count, port_queries,
                 increments, probe,
                 dialog, sorted_entries, cycle_lists, seed, torrc, compared>>

\* the connection resolver stops or is started again
ResolverChange ==
  /\ resolver' = [resolver EXCEPT !.alive = ~@]
  /\ UNCHANGED <<controller, controller_alive, CONFIG, paused,
                 LAST_RETRIEVED_CIRCUITS, LAST_RETRIEVED_HS_CONF, entry_cache,
                 _entries, _sort_order, _last_resource_fetch, _halt,
                 _client_locale_usage, _exit_port_usage, _counted_connections,
                 pc, elapsed, new_entries, current_resolution_count, port_queries,
                 increments, probe,
                 dialog, sorted_entries, cycle_lists, seed, torrc, compared>>

\* ------------------------------------------------------------ specification
\* a relay with an exit policy that takes client connections
MainController ==
  [ports |-> [OR |-> {9001}, DIR |-> {9030}, SOCKS |-> {9050}, CONTROL |-> {9051}],
   exit_policy |-> [defined |-> TRUE, accept |-> {80, 443, 9001}],
   inbound |-> TRUE,
   hidden_service_conf |-> [d \in {"hs1"} |-> [HiddenServicePort |-> {80}]]]

NoProbe == [conn |-> ConnExit, classified |-> FALSE, type |-> "", private |-> FALSE]

\* a relay that is no bridge: GETINFO status/clients-seen has no answer
NoSeed == [clients_seen |-> None, parsed |-> FALSE, raised |-> FALSE]

\* no sort values taken
NoCompared == [taken |-> FALSE, a |-> None, b |-> None, key_a |-> None, key_b |-> None]

\* Torrc.__init__: nothing loaded, no cached result, the lock free, no call made
NoTorrc ==
  [loaded |-> FALSE, contents |-> <<>>, configLocation |-> None, displayableContents |-> None,
   strippedContents |-> None, corrections |-> None, validate |-> TRUE,
   owner |-> 0, held |-> 0,
   returned |-> [op |-> "", thread |-> 0, none |-> TRUE, value |-> <<>>, raised |-> ""]]

\* the module's globals, lines 41-42
GlobalsInit ==
  /\ LAST_RETRIEVED_CIRCUITS = None
  /\ LAST_RETRIEVED_HS_CONF = None

\* ConnectionPanel.__init__ (a relay that is no bridge: nothing to pre-seed)
PanelInit ==
  /\ entry_cache = <<>>
  /\ _entries = <<>>
  /\ _sort_order = <<"CATEGORY", "IP_ADDRESS", "UPTIME">>
  /\ _last_resource_fetch = -1
  /\ _halt = FALSE
  /\ _client_locale_usage = <<>>
  /\ _exit_port_usage = <<>>
  /\ _counted_connections = {}
  /\ pc = "loop"
  /\ elapsed = UPDATE_RATE
  /\ new_entries = <<>>
  /\ current_resolution_count = 0
  /\ port_queries = [count |-> 0, last |-> [local_ports |-> <<>>, remote_ports |-> <<>>]]
  /\ increments = [c \in Connections |-> 0]
  /\ dialog = [pc |-> "closed", sorted |-> <<>>]
  /\ sorted_entries = <<>>
  /\ cycle_lists = <<>>

Init ==
  /\ controller = MainController
  /\ controller_alive = TRUE
  /\ CONFIG \in [showIps : {TRUE}, resolveApps : {TRUE}]
  /\ resolver = [alive |-> TRUE, run_counter |-> 0]
  /\ paused = FALSE
  /\ probe = NoProbe
  /\ torrc = NoTorrc
  /\ compared = NoCompared
  /\ seed = NoSeed
  /\ GlobalsInit
  /\ PanelInit

Next ==
  \/ RunCheck
  \/ RunWait
  \/ UpdateSkip
  \/ UpdateBuild
  \/ UpdatePublish
  \/ show_sort_dialog
  \/ stop
  \/ ResolverRuns
  \/ ResolverChange

Spec == Init /\ [][Next]_vars

\* ------------------------------------- the thread, paused, resumed and halted
\* the interface pauses or resumes the panel: what is_paused() answers
set_paused ==
  /\ paused' = ~paused
  /\ UNCHANGED <<controller, controller_alive, CONFIG, resolver,
                 LAST_RETRIEVED_CIRCUITS, LAST_RETRIEVED_HS_CONF, entry_cache,
                 _entries, _sort_order, _last_resource_fetch, _halt,
                 _client_locale_usage, _exit_port_usage, _counted_connections,
                 pc, elapsed, new_entries, current_resolution_count, port_queries,
                 increments, probe, dialog, sorted_entries, cycle_lists, seed, torrc, compared>>

\* tor goes away or comes back: what tor_controller().is_alive() answers
ControllerChange ==
  /\ controller_alive' = ~controller_alive
  /\ UNCHANGED <<controller, CONFIG, resolver, paused,
                 LAST_RETRIEVED_CIRCUITS, LAST_RETRIEVED_HS_CONF, entry_cache,
                 _entries, _sort_order, _last_resource_fetch, _halt,
                 _client_locale_usage, _exit_port_usage, _counted_connections,
                 pc, elapsed, new_entries, current_resolution_count, port_queries,
                 increments, probe, dialog, sorted_entries, cycle_lists, seed, torrc, compared>>

\* what the resolver and tor answer while the thread is paused and resumed
PollerConnLists == {<<ConnInbound, ConnExit>>, <<ConnRelay>>}

PollerCircLists == {<<>>, <<CircClient>>}

PollerSkip == UpdateSkipFrom(PollerCircLists)

PollerBuild == UpdateBuildFrom(PollerCircLists, PollerConnLists)

NextPoller ==
  \/ RunCheck
  \/ RunWait
  \/ PollerSkip
  \/ PollerBuild
  \/ UpdatePublish
  \/ show_sort_dialog
  \/ stop
  \/ set_paused
  \/ ControllerChange
  \/ ResolverRuns
  \/ ResolverChange

SpecPoller == Init /\ [][NextPoller]_vars

\* the thread is scheduled: each step of run() that can be taken is taken.
\* The last conjunct is WF_vars(UpdatePublish) written out: UpdatePublish can
\* be taken exactly when pc = "publish", and taking it leaves "publish".
PollerFairness ==
  /\ WF_vars(RunCheck)
  /\ WF_vars(RunWait)
  /\ WF_vars(PollerSkip \/ PollerBuild)
  /\ []<>(pc # "publish")

SpecPollerFair == Init /\ [][NextPoller]_vars /\ PollerFairness

\* ------------------------- the two threads at the published list, unlocked
\* Neither show_sort_dialog nor _update takes a lock: each reads _entries
\* and _sort_order, sorts, and then assigns; the other thread can run between
\* the evaluation of sorted(...) and the assignment of its result.

\* _update, line 683, right side: the new entries in the order of the day
PublishSort ==
  /\ pc = "publish"
  /\ \E result \in {sorted(entry_cache, new_entries, Len(new_entries), _sort_order)} :
       sorted_entries' = result
  /\ cycle_lists' = Append(cycle_lists, new_entries)
  /\ pc' = "store"
  /\ UNCHANGED <<controller, controller_alive, CONFIG, resolver, paused,
                 LAST_RETRIEVED_CIRCUITS, LAST_RETRIEVED_HS_CONF,
                 entry_cache, _entries, _sort_order, _last_resource_fetch,
                 _halt, _client_locale_usage, _exit_port_usage,
                 _counted_connections, elapsed, new_entries,
                 current_resolution_count, port_queries, increments, probe,
                 dialog, seed, torrc, compared>>

\* the assignment of line 683 with the list extended in place
PublishStoreInPlace ==
  /\ pc = "store"
  /\ _entries' = _entries \o sorted_entries
  /\ _last_resource_fetch' = current_resolution_count
  /\ \E query \in {PortQuery(entry_cache, new_entries)} :
       port_queries' = IF CONFIG.resolveApps
                       THEN [count |-> port_queries.count + 1, last |-> query]
                       ELSE port_queries
  /\ new_entries' = <<>>
  /\ sorted_entries' = <<>>
  /\ Ran
  /\ UNCHANGED <<controller, controller_alive, CONFIG, resolver, paused,
                 LAST_RETRIEVED_CIRCUITS, LAST_RETRIEVED_HS_CONF,
                 entry_cache, _sort_order, _halt, _client_locale_usage,
                 _exit_port_usage, _counted_connections,
                 current_resolution_count, increments, probe, dialog,
                 cycle_lists, seed, torrc, compared>>

\* _update, line 683, the assignment, and lines 684-697
PublishStore ==
  /\ pc = "store"
  /\ _entries' = sorted_entries
  /\ _last_resource_fetch' = current_resolution_count
  /\ \E query \in {PortQuery(entry_cache, new_entries)} :
       port_queries' = IF CONFIG.resolveApps
                       THEN [count |-> port_queries.count + 1, last |-> query]
                       ELSE port_queries
  /\ new_entries' = <<>>
  /\ sorted_entries' = <<>>
  /\ Ran
  /\ UNCHANGED <<controller, controller_alive, CONFIG, resolver, paused,
                 LAST_RETRIEVED_CIRCUITS, LAST_RETRIEVED_HS_CONF,
                 entry_cache, _sort_order, _halt, _client_locale_usage,
                 _exit_port_usage, _counted_connections,
                 current_resolution_count, increments, probe, dialog,
                 cycle_lists, seed, torrc, compared>>

\* show_sort_dialog, lines 315-316: the dialog returned an ordering
DialogOrder ==
  /\ dialog.pc = "closed"
  /\ \E results \in SortOrders :
       /\ results # _sort_order
       /\ _sort_order' = results
  /\ dialog' = [pc |-> "ordered", sorted |-> <<>>]
  /\ UNCHANGED <<controller, controller_alive, CONFIG, resolver, paused,
                 LAST_RETRIEVED_CIRCUITS, LAST_RETRIEVED_HS_CONF,
                 entry_cache, _entries, _last_resource_fetch, _halt,
                 _client_locale_usage, _exit_port_usage,
                 _counted_connections, pc, elapsed, new_entries,
                 current_resolution_count, port_queries, increments, probe,
                 sorted_entries, cycle_lists, seed, torrc, compared>>

\* show_sort_dialog, line 318, right side
DialogSort ==
  /\ dialog.pc = "ordered"
  /\ \E result \in {sorted(entry_cache, _entries, Len(_entries), _sort_order)} :
       dialog' = [pc |-> "sorted", sorted |-> result]
  /\ UNCHANGED <<controller, controller_alive, CONFIG, resolver, paused,
                 LAST_RETRIEVED_CIRCUITS, LAST_RETRIEVED_HS_CONF,
                 entry_cache, _entries, _sort_order, _last_resource_fetch,
                 _halt, _client_locale_usage, _exit_port_usage,
                 _counted_connections, pc, elapsed, new_entries,
                 current_resolution_count, port_queries, increments, probe,
                 sorted_entries, cycle_lists, seed, torrc, compared>>

\* show_sort_dialog, line 318, the assignment
DialogStore ==
  /\ dialog.pc = "sorted"
  /\ _entries' = dialog.sorted
  /\ dialog' = [pc |-> "closed", sorted |-> <<>>]
  /\ UNCHANGED <<controller, controller_alive, CONFIG, resolver, paused,
                 LAST_RETRIEVED_CIRCUITS, LAST_RETRIEVED_HS_CONF,
                 entry_cache, _sort_order, _last_resource_fetch, _halt,
                 _client_locale_usage, _exit_port_usage,
                 _counted_connections, pc, elapsed, new_entries,
                 current_resolution_count, port_queries, increments, probe,
                 sorted_entries, cycle_lists, seed, torrc, compared>>

\* two resolutions that differ in every entry, and whose entries the two
\* orderings put in different orders
RaceConnLists == {<<ConnExit, ConnRelay>>, <<ConnInbound>>}

\* a circuit that is listed and one that is skipped
RaceCircLists == {<<CircClient>>, <<CircDirBuilt>>}

RaceSkip == UpdateSkipFrom(RaceCircLists)

RaceBuild == UpdateBuildFrom(RaceCircLists, RaceConnLists)

NextRace ==
  \/ RunCheck
  \/ RunWait
  \/ RaceSkip
  \/ RaceBuild
  \/ PublishSort
  \/ PublishStore
  \/ DialogOrder
  \/ DialogSort
  \/ DialogStore
  \/ ResolverRuns

SpecRace == Init /\ [][NextRace]_vars

\* ------------------------------------- a cycle that meets an entry that raises
\* a BUILT circuit without a hop
CircBuiltEmpty == Circ(3, "BUILT", <<>>, 1)

\* _update, lines 647-673, when entry.get_lines() raises in the loop of line
\* 672: the entries before it have been counted, nothing catches the
\* exception in _update or in run(), and the thread ends with it
UpdateRaiseFrom(circ_lists, conn_lists) ==
  /\ pc = "update"
  /\ resolver.alive /\ resolver.run_counter # _last_resource_fetch
  /\ \E circuits \in circ_lists, conns \in conn_lists :
       \E cache \in {CacheAfter(entry_cache, conns, circuits, get_hidden_service_conf)},
          merged \in {e \in {MergedEntries(conns, circuits)} :
                        \E i \in 1..Len(e) : Raises(e[i])} :
       \E first \in {i \in 1..Len(merged) :
                       Raises(merged[i]) /\ \A j \in 1..(i - 1) : ~Raises(merged[j])} :
       \E usage \in {CountEntries(cache,
                                  [locale |-> _client_locale_usage,
                                   exit_port |-> _exit_port_usage,
                                   counted |-> _counted_connections,
                                   incremented |-> increments],
                                  merged, first - 1)} :
           /\ LAST_RETRIEVED_CIRCUITS' = circuits
           /\ LAST_RETRIEVED_HS_CONF' = get_hidden_service_conf
           /\ entry_cache' = cache
           /\ _client_locale_usage' = usage.locale
           /\ _exit_port_usage' = usage.exit_port
           /\ _counted_connections' = usage.counted
           /\ increments' = usage.incremented
  /\ current_resolution_count' = resolver.run_counter
  /\ pc' = "raised"
  /\ UNCHANGED <<controller, controller_alive, CONFIG, resolver, paused,
                 _entries, _sort_order, _last_resource_fetch, _halt,
                 elapsed, new_entries, port_queries, probe, dialog,
                 sorted_entries, cycle_lists, seed, torrc, compared>>

\* what the resolver and tor answer, a circuit that raises among it
FailConnLists == {<<ConnExit>>, <<ConnRelay, ConnInbound>>}

FailCircLists == {<<CircClient>>, <<CircClient, CircBuiltEmpty>>, <<CircBuiltEmpty, CircDirExtended>>}

FailSkip == UpdateSkipFrom(FailCircLists)

FailBuild == UpdateBuildFrom(FailCircLists, FailConnLists)

FailRaise == UpdateRaiseFrom(FailCircLists, FailConnLists)

NextFail ==
  \/ RunCheck
  \/ RunWait
  \/ FailSkip
  \/ FailBuild
  \/ FailRaise
  \/ UpdatePublish
  \/ show_sort_dialog
  \/ ResolverRuns
  \/ ResolverChange

SpecFail == Init /\ [][NextFail]_vars

\* the thread is scheduled and its waits time out: each step of run() that
\* can be taken is taken, and of the waits of 0.2 s enough are taken for the
\* interval to elapse. The last conjunct is WF_vars(UpdatePublish) written
\* out, as in PollerFairness.
FailFairness ==
  /\ WF_vars(RunCheck)
  /\ WF_vars(RunWait)
  /\ SF_vars(RunWait /\ elapsed' = UPDATE_RATE)
  /\ WF_vars(FailSkip \/ FailBuild \/ FailRaise)
  /\ []<>(pc # "publish")

SpecFailFair == SpecFail /\ FailFairness

\* ------------------------------------- __init__: the counts of a bridge's clients
RECURSIVE split(_, _)
\* str.split(sep)
split(str, sep) ==
  IF \A i \in 1..Len(str) : str[i] # sep THEN <<str>>
  ELSE LET at == CHOOSE i \in 1..Len(str) : str[i] = sep /\ \A j \in 1..(i - 1) : str[j] # sep
       IN  <<SubSeq(str, 1, at - 1)>> \o split(SubSeq(str, at + 1, Len(str)), sep)

\* str.split(): the words between blanks
words(str) == SelectSeq(split(str, 32), LAMBDA w : w # <<>>)

\* str.startswith(prefix)
startswith(str, prefix) ==
  Len(str) >= Len(prefix) /\ SubSeq(str, 1, Len(prefix)) = prefix

\* 'CountrySummary='
COUNTRY_SUMMARY == <<67, 111, 117, 110, 116, 114, 121, 83, 117, 109, 109, 97, 114, 121, 61>>

\* lines 295-300: what follows 'CountrySummary=' in the first word that starts with it
country_summary(bridge_clients) ==
  LET w == words(bridge_clients)
      hits == {i \in 1..Len(w) : startswith(w[i], COUNTRY_SUMMARY)}
  IN  IF hits = {} THEN None
      ELSE LET first == CHOOSE i \in hits : \A j \in hits : i <= j
           IN  SubSeq(w[first], Len(COUNTRY_SUMMARY) + 1, Len(w[first]))

\* [0-9]
IsDigit(ch) == ch \in 48..57

\* re.match('^..=[0-9]+$', entry), entry a word without blanks or newlines
re_match(entry) ==
  /\ Len(entry) >= 4
  /\ entry[3] = 61
  /\ \A i \in 4..Len(entry) : IsDigit(entry[i])

\* entry.split('=', 1) of an entry with a '='
split_once(entry) ==
  LET at == CHOOSE i \in 1..Len(entry) : entry[i] = 61 /\ \A j \in 1..(i - 1) : entry[j] # 61
  IN  <<SubSeq(entry, 1, at - 1), SubSeq(entry, at + 1, Len(entry))>>

\* int(count) returns: count is a decimal numeral (count has no sign, blank or underscore here)
IsNumeral(count) == count # <<>> /\ \A i \in 1..Len(count) : IsDigit(count[i])

RECURSIVE int_to(_, _)
\* the value of the first n digits of count
int_to(count, n) ==
  IF n = 0 THEN 0 ELSE int_to(count, n - 1) * 10 + (count[n] - 48)

\* int(count)
int(count) == int_to(count, Len(count))

\* dict[key] = value
Assigned(d, key, value) ==
  [k \in DOMAIN d \cup {key} |-> IF k = key THEN value ELSE d[k]]

RECURSIVE PreseedEntries(_, _)
\* the loop of lines 303-306 over the first n entries: the dict, and whether
\* int() raised its ValueError
PreseedEntries(entries, n) ==
  IF n = 0 THEN [usage |-> <<>>, raised |-> FALSE]
  ELSE LET before == PreseedEntries(entries, n - 1)
           pair == split_once(entries[n])
       IN  IF before.raised \/ ~re_match(entries[n]) THEN before
           ELSE IF ~IsNumeral(pair[2]) THEN [before EXCEPT !.raised = TRUE]
           ELSE [before EXCEPT !.usage = Assigned(@, pair[1], int(pair[2]))]

\* __init__, lines 289-306
Preseed ==
  /\ ~seed.parsed /\ ~seed.raised
  /\ \E summary \in {IF seed.clients_seen # <<>>
                      THEN country_summary(seed.clients_seen) ELSE None} :
       \E result \in {IF summary # <<>>
                       THEN PreseedEntries(split(summary, 44), Len(split(summary, 44)))
                       ELSE [usage |-> <<>>, raised |-> FALSE]} :
          /\ _client_locale_usage' = result.usage
          /\ seed' = [seed EXCEPT !.parsed = ~result.raised, !.raised = result.raised]
  /\ UNCHANGED <<controller, controller_alive, CONFIG, resolver, paused,
                 LAST_RETRIEVED_CIRCUITS, LAST_RETRIEVED_HS_CONF,
                 entry_cache, _entries, _sort_order, _last_resource_fetch,
                 _halt, _exit_port_usage, _counted_connections, pc, elapsed,
                 new_entries, current_resolution_count, port_queries,
                 increments, probe, dialog, sorted_entries, cycle_lists, torrc, compared>>

\* entries of a CountrySummary: us=16, de=8, xx=bad, us=4, 12=5, u==3, usa=2
SeedEntries ==
  { <<117, 115, 61, 49, 54>>,
    <<100, 101, 61, 56>>,
    <<120, 120, 61, 98, 97, 100>>,
    <<117, 115, 61, 52>>,
    <<49, 50, 61, 53>>,
    <<117, 61, 61, 51>>,
    <<117, 115, 97, 61, 50>> }

RECURSIVE Joined(_, _)
\* ','.join(entries[:n])
Joined(entries, n) ==
  IF n = 0 THEN <<>>
  ELSE IF n = 1 THEN entries[1]
  ELSE Joined(entries, n - 1) \o <<44>> \o entries[n]

\* 'TimeStarted="2011-08-17 15:50:49" '
TIME_STARTED == <<84, 105, 109, 101, 83, 116, 97, 114, 116, 101, 100, 61, 34, 50, 48, 49, 49, 45, 48, 56, 45, 49, 55, 32, 49, 53, 58, 53, 48, 58, 52, 57, 34, 32>>

\* tor's answers to GETINFO status/clients-seen
SeedReplies ==
  {None, TIME_STARTED}
    \cup {TIME_STARTED \o COUNTRY_SUMMARY \o Joined(l, Len(l)) : l \in SeqsUpTo(SeedEntries, MaxSeed)}

InitSeed ==
  /\ controller = MainController
  /\ controller_alive = TRUE
  /\ CONFIG \in [showIps : {TRUE}, resolveApps : {TRUE}]
  /\ resolver = [alive |-> TRUE, run_counter |-> 0]
  /\ paused = FALSE
  /\ probe = NoProbe
  /\ torrc = NoTorrc
  /\ compared = NoCompared
  /\ seed \in [clients_seen : SeedReplies, parsed : {FALSE}, raised : {FALSE}]
  /\ GlobalsInit
  /\ PanelInit

NextSeed == Preseed

SpecSeed == InitSeed /\ [][NextSeed]_vars

\* ------------------------------------------------- util/torrc.py: the Torrc
\* A field that is None or a list has a flag beside it where the two must be
\* told apart: loaded is `contents != None`, returned.none is `returnVal is None`.

\* the threads that call the singleton
Threads == {1, 2}

\* '/etc/tor/torrc'
TorrcPath == <<47, 101, 116, 99, 47, 116, 111, 114, 47, 116, 111, 114, 114, 99>>

\* what readlines() can give: an empty file; a line with a tab; an option
\* given twice, the first time with a comment
TorrcFiles ==
  { <<>>,
    <<<<97, 9, 49, 10>>>>,
    <<<<97, 32, 49, 32, 35, 99, 10>>, <<97, 32, 50, 10>>>> }

RECURSIVE displayable(_, _)
\* lines 297-298 for the first n characters: a tab becomes three blanks,
\* what curses.ascii.isprint rejects is dropped
displayable(lineText, n) ==
  IF n = 0 THEN <<>>
  ELSE displayable(lineText, n - 1)
         \o (IF lineText[n] = 9 THEN <<32, 32, 32>>
             ELSE IF lineText[n] \in 32..126 THEN <<lineText[n]>>
             ELSE <<>>)

\* str.strip()
strip(str) ==
  LET inner == {i \in 1..Len(str) : str[i] \notin {9, 10, 11, 12, 13, 32}}
  IN  IF inner = {} THEN <<>>
      ELSE SubSeq(str, CHOOSE i \in inner : \A j \in inner : i <= j,
                       CHOOSE i \in inner : \A j \in inner : i >= j)

\* _stripComments, lines 205-209
stripComments(contents) ==
  [i \in 1..Len(contents) |->
     LET hashes == {k \in 1..Len(contents[i]) : contents[i][k] = 35}
     IN  strip(IF hashes = {} THEN contents[i]
               ELSE SubSeq(contents[i], 1, (CHOOSE k \in hashes : \A j \in hashes : k <= j) - 1))]

\* lineText.split(None, 1)[0]
option_of(lineText) ==
  LET blanks == {k \in 1..Len(lineText) : lineText[k] \in {9, 10, 11, 12, 13, 32}}
  IN  IF blanks = {} THEN lineText
      ELSE SubSeq(lineText, 1, (CHOOSE k \in blanks : \A j \in blanks : k <= j) - 1)

\* validate(contents), with a tor that was started from these contents (its
\* GETCONF answers match the line in force) and no multiline options: the
\* lines, counted from 0, that a later line overrides get (VAL_DUPLICATE, "")
validate(contents) ==
  LET stripped == stripComments(contents)
      issues == {i \in 1..Len(stripped) :
                   /\ stripped[i] # <<>>
                   /\ \E j \in (i + 1)..Len(stripped) :
                        stripped[j] # <<>> /\ option_of(stripped[j]) = option_of(stripped[i])}
  IN  [lineNumber \in {i - 1 : i \in issues} |-> <<1, <<>>>>]

\* valsLock.acquire() by thread t returns: an RLock is free or the caller's
Acquirable(t) == torrc.owner \in {0, t}

\* Torrc.load, lines 227-250; location is the answer of getConfigLocation()
\* and file what open() and readlines() give, each None for an IOError
Torrc_load(t, location, file) ==
  /\ Acquirable(t)
  /\ torrc' = [torrc EXCEPT
                 !.loaded = location.found /\ file.found,
                 !.contents = IF location.found /\ file.found THEN file.lines ELSE <<>>,
                 !.configLocation = IF location.found THEN TorrcPath ELSE None,
                 !.displayableContents = None,
                 !.strippedContents = None,
                 !.corrections = None,
                 !.returned = [op |-> "load", thread |-> t, none |-> TRUE, value |-> <<>>,
                               raised |-> IF location.found /\ file.found THEN "" ELSE "IOError"]]
  /\ UNCHANGED <<controller, controller_alive, CONFIG, resolver, paused,
                 LAST_RETRIEVED_CIRCUITS, LAST_RETRIEVED_HS_CONF,
                 entry_cache, _entries, _sort_order, _last_resource_fetch,
                 _halt, _client_locale_usage, _exit_port_usage,
                 _counted_connections, pc, elapsed, new_entries,
                 current_resolution_count, port_queries, increments, probe,
                 dialog, sorted_entries, cycle_lists, seed, compared>>

load ==
  \E t \in Threads :
    \/ Torrc_load(t, [found |-> FALSE], [found |-> FALSE])
    \/ Torrc_load(t, [found |-> TRUE], [found |-> FALSE])
    \/ \E lines \in TorrcFiles :
         Torrc_load(t, [found |-> TRUE], [found |-> TRUE, lines |-> lines])

\* Torrc.getContents, lines 267-275: line 273 calls valsLock.relese(), a
\* name an RLock does not have, so the call ends there with an AttributeError
\* and the lock stays acquired
getContents ==
  \E t \in Threads :
    /\ Acquirable(t)
    /\ torrc.held < MaxHeld
    /\ torrc' = [torrc EXCEPT
                   !.owner = t,
                   !.held = @ + 1,
                   !.returned = [op |-> "getContents", thread |-> t, none |-> TRUE,
                                 value |-> <<>>, raised |-> "AttributeError"]]
  /\ UNCHANGED <<controller, controller_alive, CONFIG, resolver, paused,
                 LAST_RETRIEVED_CIRCUITS, LAST_RETRIEVED_HS_CONF,
                 entry_cache, _entries, _sort_order, _last_resource_fetch,
                 _halt, _client_locale_usage, _exit_port_usage,
                 _counted_connections, pc, elapsed, new_entries,
                 current_resolution_count, port_queries, increments, probe,
                 dialog, sorted_entries, cycle_lists, seed, compared>>

\* Torrc.getDisplayContents(strip), lines 277-312
getDisplayContents ==
  \E t \in Threads, strip_arg \in BOOLEAN :
    /\ Acquirable(t)
    /\ \E shown \in {IF torrc.displayableContents # None \/ ~torrc.loaded
                      THEN torrc.displayableContents
                      ELSE [i \in 1..Len(torrc.contents) |->
                              displayable(torrc.contents[i], Len(torrc.contents[i]))]} :
         \E stripped \in {IF torrc.strippedContents # None \/ ~torrc.loaded \/ ~strip_arg
                           THEN torrc.strippedContents
                           ELSE stripComments(shown)} :
           torrc' = [torrc EXCEPT
                       !.displayableContents = shown,
                       !.strippedContents = stripped,
                       !.returned = [op |-> "getDisplayContents", thread |-> t,
                                     none |-> ~torrc.loaded,
                                     value |-> IF ~torrc.loaded THEN <<>>
                                               ELSE IF strip_arg THEN stripped ELSE shown,
                                     raised |-> ""]]
  /\ UNCHANGED <<controller, controller_alive, CONFIG, resolver, paused,
                 LAST_RETRIEVED_CIRCUITS, LAST_RETRIEVED_HS_CONF,
                 entry_cache, _entries, _sort_order, _last_resource_fetch,
                 _halt, _client_locale_usage, _exit_port_usage,
                 _counted_connections, pc, elapsed, new_entries,
                 current_resolution_count, port_queries, increments, probe,
                 dialog, sorted_entries, cycle_lists, seed, compared>>

\* Torrc.getCorrections, lines 314-332
getCorrections ==
  \E t \in Threads :
    /\ Acquirable(t)
    /\ \E found \in {IF torrc.corrections # None \/ ~torrc.loaded \/ ~torrc.validate
                      THEN torrc.corrections
                      ELSE validate(torrc.contents)} :
         torrc' = [torrc EXCEPT
                     !.corrections = found,
                     !.returned = [op |-> "getCorrections", thread |-> t,
                                   none |-> ~torrc.loaded,
                                   value |-> IF torrc.loaded /\ torrc.validate THEN found ELSE <<>>,
                                   raised |-> ""]]
  /\ UNCHANGED <<controller, controller_alive, CONFIG, resolver, paused,
                 LAST_RETRIEVED_CIRCUITS, LAST_RETRIEVED_HS_CONF,
                 entry_cache, _entries, _sort_order, _last_resource_fetch,
                 _halt, _client_locale_usage, _exit_port_usage,
                 _counted_connections, pc, elapsed, new_entries,
                 current_resolution_count, port_queries, increments, probe,
                 dialog, sorted_entries, cycle_lists, seed, compared>>

\* the connection panel as constructed, and a Torrc as constructed under
\* either setting of features.torrc.validate
InitTorrc ==
  /\ controller = MainController
  /\ controller_alive = TRUE
  /\ CONFIG \in [showIps : {TRUE}, resolveApps : {TRUE}]
  /\ resolver = [alive |-> TRUE, run_counter |-> 0]
  /\ paused = FALSE
  /\ probe = NoProbe
  /\ seed = NoSeed
  /\ \E validating \in BOOLEAN : torrc = [NoTorrc EXCEPT !.validate = validating]
  /\ compared = NoCompared
  /\ GlobalsInit
  /\ PanelInit

NextTorrc ==
  \/ load
  \/ getContents
  \/ getDisplayContents
  \/ getCorrections

SpecTorrc == InitTorrc /\ [][NextTorrc]_vars

\* ------------------------------------------- the port usage query of a cycle
\* an application on this host, connected to tor's SocksPort
ConnSocks == Conn(1, 9050, <<127, 0, 0, 1>>, 50001, "tcp")

\* a controller on this host, connected to tor's ControlPort
ConnControl == Conn(2, 9051, <<127, 0, 0, 1>>, 50002, "tcp")

\* what the resolver reports: client connections among others
QueryConnLists ==
  {<<ConnSocks, ConnControl>>, <<ConnControl, ConnExit, ConnSocks>>, <<ConnRelay>>}

QueryCircLists == {<<>>, <<CircClient>>}

QuerySkip == UpdateSkipFrom(QueryCircLists)

QueryBuild == UpdateBuildFrom(QueryCircLists, QueryConnLists)

\* features.connection.resolveApps is set or not
InitQuery ==
  /\ controller = MainController
  /\ controller_alive = TRUE
  /\ CONFIG \in [showIps : {TRUE}, resolveApps : BOOLEAN]
  /\ resolver = [alive |-> TRUE, run_counter |-> 0]
  /\ paused = FALSE
  /\ probe = NoProbe
  /\ torrc = NoTorrc
  /\ compared = NoCompared
  /\ seed = NoSeed
  /\ GlobalsInit
  /\ PanelInit

NextQuery ==
  \/ RunCheck
  \/ RunWait
  \/ QuerySkip
  \/ QueryBuild
  \/ UpdatePublish
  \/ ResolverRuns

SpecQuery == InitQuery /\ [][NextQuery]_vars

\* ------------------------------------ the IP_ADDRESS sort value of two entries
\* octets at both ends of their range, and next to them
KeyOctets == {0, 1, 255}

\* ports at both ends of their range
KeyPorts == {0, 65535}

\* connections to every address and port of these, their local side alike
KeyConnections ==
  { Conn(1, 34567, address, port, "tcp") : address \in [1..4 -> KeyOctets], port \in KeyPorts }

\* entry.sort_value(SortAttr.IP_ADDRESS) of the entry of a connection that
\* is OUTBOUND, hence not private
\* (lines 132-144)
ip_address_sort_value(conn) ==
  sort_value(conn :> [type |-> "OUTBOUND", private |-> FALSE,
                      lines |-> ConnectionEntry_get_lines(conn, "OUTBOUND")],
             ConnectionEntry(conn), "IP_ADDRESS")

\* the sort takes the IP_ADDRESS value of two entries of its list
TakeSortValues ==
  /\ ~compared.taken
  /\ compared' = [compared EXCEPT !.taken = TRUE,
                                  !.key_a = ip_address_sort_value(compared.a),
                                  !.key_b = ip_address_sort_value(compared.b)]
  /\ UNCHANGED <<controller, controller_alive, CONFIG, resolver, paused,
                 LAST_RETRIEVED_CIRCUITS, LAST_RETRIEVED_HS_CONF,
                 entry_cache, _entries, _sort_order, _last_resource_fetch,
                 _halt, _client_locale_usage, _exit_port_usage,
                 _counted_connections, pc, elapsed, new_entries,
                 current_resolution_count, port_queries, increments, probe,
                 dialog, sorted_entries, cycle_lists, seed, torrc>>

InitKey ==
  /\ controller = MainController
  /\ controller_alive = TRUE
  /\ CONFIG \in [showIps : {TRUE}, resolveApps : {TRUE}]
  /\ resolver = [alive |-> TRUE, run_counter |-> 0]
  /\ paused = FALSE
  /\ probe = NoProbe
  /\ torrc = NoTorrc
  /\ seed = NoSeed
  /\ GlobalsInit
  /\ PanelInit
  /\ \E a, b \in KeyConnections :
       compared = [NoCompared EXCEPT !.a = a, !.b = b]

NextKey == TakeSortValues

SpecKey == InitKey /\ [][NextKey]_vars

\* ---------------------------------------------- the classifier on its own
\* listener configurations: apart, sharing ports, and none
ProbePorts ==
  { [OR |-> {9001}, DIR |-> {9030}, SOCKS |-> {9050}, CONTROL |-> {9051}],
    [OR |-> {9001}, DIR |-> {9001, 9030}, SOCKS |-> {9030, 9050}, CONTROL |-> {9001, 9050, 9051}],
    [OR |-> {}, DIR |-> {}, SOCKS |-> {}, CONTROL |-> {}] }

\* get_exit_policy(None): none, one that rejects everything, one that accepts some ports
ProbePolicies ==
  { [defined |-> FALSE, accept |-> {}],
    [defined |-> TRUE, accept |-> {}],
    [defined |-> TRUE, accept |-> {53, 80, 9001}] }

ProbeControllers ==
  [ports : ProbePorts, exit_policy : ProbePolicies, inbound : BOOLEAN,
   hidden_service_conf : {None}]

\* LAST_RETRIEVED_CIRCUITS at the time of the call
ProbeCircLists ==
  {s \in SeqsUpTo(Circuits \cup {CircLaunched}, MaxCircs) :
     \A i, j \in 1..Len(s) : i # j => s[i].id # s[j].id}

ProbeConnections ==
  { Conn(1, lport, remote[1], remote[2], proto) :
      lport \in {9001, 9030, 9050, 9051, 34567},
      remote \in {<<AddrRelayA, 9001>>, <<AddrRelayA, 80>>, <<AddrClient, 80>>, <<AddrClient, 53>>},
      proto \in {"tcp", "udp"} }

InitClassify ==
  /\ controller \in ProbeControllers
  /\ controller_alive = TRUE
  /\ CONFIG \in [showIps : BOOLEAN, resolveApps : {TRUE}]
  /\ resolver = [alive |-> TRUE, run_counter |-> 0]
  /\ paused = FALSE
  /\ PanelInit
  /\ LAST_RETRIEVED_CIRCUITS \in ProbeCircLists
  /\ LAST_RETRIEVED_HS_CONF \in HsConfs
  /\ probe \in [conn : ProbeConnections, classified : {FALSE}, type : {""}, private : {FALSE}]
  /\ torrc = NoTorrc
  /\ compared = NoCompared
  /\ seed = NoSeed

\* the first get_type() and is_private() of a ConnectionEntry for probe.conn
Classify ==
  /\ ~probe.classified
  /\ \E type \in {get_type(probe.conn, LAST_RETRIEVED_CIRCUITS, LAST_RETRIEVED_HS_CONF)} :
       probe' = [conn |-> probe.conn, classified |-> TRUE, type |-> type,
                 private |-> is_private(probe.conn, type)]
  /\ UNCHANGED <<controller, controller_alive, CONFIG, resolver, paused,
                 LAST_RETRIEVED_CIRCUITS, LAST_RETRIEVED_HS_CONF, entry_cache,
                 _entries, _sort_order, _last_resource_fetch, _halt,
                 _client_locale_usage, _exit_port_usage, _counted_connections,
                 pc, elapsed, new_entries, current_resolution_count, port_queries,
                 increments,
                 dialog, sorted_entries, cycle_lists, seed, torrc, compared>>

NextClassify == Classify

SpecClassify == InitClassify /\ [][NextClassify]_vars

\* ================================================================== claims
Range(s) == {s[i] : i \in 1..Len(s)}

\* the poller's step that publishes / that builds / that returns early
Publishes == pc = "publish" /\ pc' = "loop"

Builds == pc = "update" /\ pc' = "publish"

\* C1: a Connection that is in _counted_connections never causes another
\* increment of a locale or exit-port count, however often later cycles list
\* it: no connection is counted more than once in a session, a step leaves
\* the increments of the counted connections alone, and a cycle that lists
\* only counted connections changes neither count.
C1_CountedOnce ==
  /\ [](\A c \in Connections : increments[c] <= 1)
  /\ [][\A c \in _counted_connections : increments'[c] = increments[c]]_vars
  /\ [][(Builds /\ \A e \in Range(new_entries') :
                      e.kind = "connection" => e.of \in _counted_connections)
        => /\ _client_locale_usage' = _client_locale_usage
           /\ _exit_port_usage' = _exit_port_usage]_vars

\* a cycle has gone over a connection that an earlier cycle counted and published
C1_Witness ==
  /\ pc = "publish"
  /\ \E e \in Range(new_entries) :
       /\ e \in Range(_entries)
       /\ e.kind = "connection"
       /\ e.of \in _counted_connections
       /\ increments[e.of] = 1

\* C2 as stated: the Line of a published private entry carries a scrubbed
\* remote address instead of the one the resolver reported.
C2_LinesScrubbed ==
  \A e \in Range(_entries) :
     EntryPrivate(entry_cache, e) =>
       \A k \in 1..Len(EntryLines(entry_cache, e)) :
          EntryLines(entry_cache, e)[k].connection.remote_address # e.of.remote_address

\* C2 amended: the Line of a published private entry keeps the resolver's
\* connection, and it is the address column drawn for it that shows
\* '<scrubbed>' and nowhere the remote address.
C2_DrawnScrubbed ==
  \A e \in Range(_entries) :
     EntryPrivate(entry_cache, e) =>
       \A k \in 1..Len(EntryLines(entry_cache, e)) :
          LET line == EntryLines(entry_cache, e)[k]
              row == draw_address_column(entry_cache, e, line)
          IN  /\ line.connection = e.of
              /\ row.left.address # line.connection.remote_address
              /\ row.right.address # line.connection.remote_address
              /\ SCRUBBED \in {row.left.address, row.right.address}

\* a private inbound entry, whose columns are drawn swapped, has been published
C2_Witness ==
  /\ \E e \in Range(_entries) :
       EntryPrivate(entry_cache, e) /\ EntryType(entry_cache, e) = "INBOUND"
  /\ _last_resource_fetch >= 0

\* C3 as stated: what a publishing cycle publishes for a ConnectionEntry is
\* the classification of its Connection against the circuits and the hidden
\* service configuration that this cycle fetched.
C3_ClassifiedAfresh ==
  [][Publishes =>
       \A e \in Range(_entries') :
          e.kind = "connection" =>
            LET fresh == Classified(e.of, LAST_RETRIEVED_CIRCUITS', LAST_RETRIEVED_HS_CONF')
            IN  /\ entry_cache'[e.of].type = fresh.type
                /\ entry_cache'[e.of].private = fresh.private]_vars

\* C4: a cycle that finds the resolver dead, or its run counter unchanged,
\* changes neither the published list nor the recorded run counter nor the
\* usage counts nor the counted set, sends no port query, and leaves the
\* thread in its loop with last_ran set.
C4_SkippedCycle ==
  [][(/\ pc = "update"
      /\ pc' # "update"
      /\ ~resolver.alive \/ resolver.run_counter = _last_resource_fetch)
     => /\ UNCHANGED <<_entries, _last_resource_fetch, _client_locale_usage,
                       _exit_port_usage, _counted_connections, port_queries>>
        /\ pc' = "loop"
        /\ elapsed' = 0
        /\ _halt' = _halt]_vars

\* a cycle has returned early after a list was published: the published list
\* holds a circuit that the last fetch no longer reported
C4_Witness ==
  /\ pc = "loop"
  /\ elapsed = 0
  /\ \E e \in Range(_entries) :
       e.kind = "circuit" /\ e.of \notin Range(LAST_RETRIEVED_CIRCUITS)

\* C5: no published list holds a CircuitEntry of a BUILT circuit of one hop,
\* so none holds one beside a DIRECTORY entry to that hop; and a publishing
\* cycle lists every other circuit it fetched exactly once, and no other.
C5_CircuitRows ==
  /\ [](\A e \in Range(_entries) :
          e.kind = "circuit" => ~(e.of.status = "BUILT" /\ Len(e.of.path) = 1))
  /\ [][Publishes =>
          /\ \A circ \in Range(LAST_RETRIEVED_CIRCUITS') :
               Cardinality({i \in 1..Len(_entries') :
                              _entries'[i] = [kind |-> "circuit", of |-> circ]})
                 = IF circ.status = "BUILT" /\ Len(circ.path) = 1 THEN 0 ELSE 1
          /\ \A e \in Range(_entries') :
               e.kind = "circuit" => e.of \in Range(LAST_RETRIEVED_CIRCUITS')]_vars

\* a DIRECTORY entry is published, of a cycle that fetched the one-hop circuit
C5_Witness ==
  /\ pc = "loop"
  /\ \E e \in Range(_entries) : EntryType(entry_cache, e) = "DIRECTORY"
  /\ CircDirBuilt \in Range(LAST_RETRIEVED_CIRCUITS)

\* C6 as stated: the IP_ADDRESS key of a private entry is not below the
\* key of any entry that is not private.
C6_PrivateKeyIsGreatest ==
  \A c1, c2 \in DOMAIN entry_cache :
     (entry_cache[c1].private /\ ~entry_cache[c2].private)
       => ~SeqLt(sort_value(entry_cache, [kind |-> "connection", of |-> c1], "IP_ADDRESS"),
                 sort_value(entry_cache, [kind |-> "connection", of |-> c2], "IP_ADDRESS"))

\* where e is in s
PositionIn(s, e) == CHOOSE i \in 1..Len(s) : s[i] = e

ProbeRoles == {l \in {"OR", "DIR", "SOCKS", "CONTROL"} : probe.conn.local_port \in controller.ports[l]}

\* the fingerprint the probe's remote address and port resolve to
ProbeFingerprint ==
  DictGet(get_relay_fingerprints(probe.conn.remote_address), probe.conn.remote_port)

\* C8: the listener rules win in their order, OR, directory, SOCKS, control,
\* over each other and over every later rule, whatever the remote end, the
\* hidden services, the circuits and the exit policy are.
C8_ListenerRules ==
  probe.classified =>
    /\ "OR" \in ProbeRoles => probe.type = "INBOUND"
    /\ ("OR" \notin ProbeRoles /\ "DIR" \in ProbeRoles) => probe.type = "INBOUND"
    /\ (ProbeRoles \cap {"OR", "DIR"} = {} /\ "SOCKS" \in ProbeRoles) => probe.type = "SOCKS"
    /\ (ProbeRoles = {"CONTROL"}) => probe.type = "CONTROL"

\* a connection to a port that is both a SOCKS and a control listener, from
\* a known relay, with circuits known, has been classified
C8_Witness ==
  /\ probe.classified
  /\ ProbeRoles = {"SOCKS", "CONTROL"}
  /\ ProbeFingerprint # None
  /\ LAST_RETRIEVED_CIRCUITS # <<>>

\* C9: a connection of no listener role and no hidden service port, whose
\* remote end is no known relay and may be exited to, is EXIT, whatever the
\* last retrieved circuits are.
C9_ExitOfUnknownPeer ==
  (/\ probe.classified
   /\ ProbeRoles = {}
   /\ \A d \in DOMAIN LAST_RETRIEVED_HS_CONF :
        probe.conn.remote_port \notin LAST_RETRIEVED_HS_CONF[d].HiddenServicePort
   /\ ProbeFingerprint = None
   /\ controller.exit_policy.defined
   /\ probe.conn.remote_port \in controller.exit_policy.accept)
  => probe.type = "EXIT"

\* such a connection has been classified while circuits and a hidden service were known
C9_Witness ==
  /\ probe.classified
  /\ ProbeRoles = {}
  /\ LAST_RETRIEVED_HS_CONF # None
  /\ ProbeFingerprint = None
  /\ controller.exit_policy.defined
  /\ probe.conn.remote_port \in controller.exit_policy.accept
  /\ LAST_RETRIEVED_CIRCUITS # <<>>
  /\ probe.type = "EXIT"

\* C10 as stated: a connection whose remote address and port resolve to a
\* relay's fingerprint is never EXIT; without a listener role it is
\* DIRECTORY or OUTBOUND.
C10_KnownRelayNeverExit ==
  (probe.classified /\ ProbeFingerprint # None) =>
    /\ probe.type # "EXIT"
    /\ ProbeRoles = {} => probe.type \in {"DIRECTORY", "OUTBOUND"}

\* C11: the privacy flag of a ConnectionEntry is true when addresses are not
\* to be shown; otherwise, for INBOUND, true exactly when inbound user traffic
\* is permitted and no relay is known at the remote address; for EXIT, true
\* exactly when the connection is not udp to port 53; false for every other
\* category. A CircuitEntry is of category CIRCUIT and never private.
C11_PrivacyRule ==
  /\ probe.classified =>
       probe.private =
         IF ~CONFIG.showIps THEN TRUE
         ELSE IF probe.type = "INBOUND"
              THEN /\ controller.inbound
                   /\ \A r \in Relays : r.address # probe.conn.remote_address
         ELSE IF probe.type = "EXIT"
              THEN ~(probe.conn.protocol = "udp" /\ probe.conn.remote_port = 53)
         ELSE FALSE
  /\ \A circ \in Range(LAST_RETRIEVED_CIRCUITS) :
       /\ EntryType(entry_cache, CircuitEntry(circ)) = "CIRCUIT"
       /\ ~EntryPrivate(entry_cache, CircuitEntry(circ))

\* an inbound connection from no relay was classified where addresses are
\* shown and inbound user traffic is not permitted, beside a known circuit
C11_Witness ==
  /\ probe.classified
  /\ CONFIG.showIps
  /\ probe.type = "INBOUND"
  /\ ~controller.inbound
  /\ \A r \in Relays : r.address # probe.conn.remote_address
  /\ ~probe.private
  /\ LAST_RETRIEVED_CIRCUITS # <<>>

\* C12 as stated: a cycle that meets private INBOUND connections not yet
\* counted, from an address of locale L, raises the count of L by one for
\* each of them.
C12_InboundLocaleCounted ==
  [][Builds =>
       \A L \in {LocaleUs, LocaleDe} :
          DictGet0(_client_locale_usage', L) =
            DictGet0(_client_locale_usage, L)
              + Cardinality({e \in Range(new_entries') :
                               /\ e.kind = "connection"
                               /\ EntryType(entry_cache', e) = "INBOUND"
                               /\ EntryPrivate(entry_cache', e)
                               /\ e.of \notin _counted_connections
                               /\ ip_to_country(e.of.remote_address) = L})]_vars

\* the private connection entries among the entries a cycle has built
PrivateConnections(c, entries) ==
  {e.of : e \in {x \in Range(entries) : x.kind = "connection" /\ EntryPrivate(c, x)}}

\* only a cycle's private entries change the two counts and the counted set
OnlyPrivateAggregated ==
  [][/\ ~Builds => UNCHANGED <<_client_locale_usage, _exit_port_usage, _counted_connections>>
     /\ Builds =>
          /\ _counted_connections' \ _counted_connections
               \subseteq PrivateConnections(entry_cache', new_entries')
          /\ PrivateConnections(entry_cache', new_entries') \subseteq _counted_connections
               => UNCHANGED <<_client_locale_usage, _exit_port_usage, _counted_connections>>]_vars

\* C13 as stated: the counts and the counted set hold no remote address of a
\* connection that was examined, and only private entries change them.
C13_NoRawAddress ==
  /\ [](\A conn \in DOMAIN entry_cache :
          /\ DOMAIN _client_locale_usage \subseteq {LocaleUs, LocaleDe}
          /\ DOMAIN _exit_port_usage \subseteq 0..65535
          /\ \A counted \in _counted_connections :
               counted.remote_address # conn.remote_address)
  /\ OnlyPrivateAggregated

\* C13 amended: the two counts are keyed by locale and by port only; the
\* counted set holds the Connection values, remote address included, of
\* private entries that were examined; only private entries change the three.
C13_BucketsAndConnections ==
  /\ [](/\ DOMAIN _client_locale_usage \subseteq {LocaleUs, LocaleDe}
        /\ DOMAIN _exit_port_usage \subseteq {c.remote_port : c \in _counted_connections}
        /\ \A counted \in _counted_connections :
             /\ counted \in DOMAIN entry_cache
             /\ entry_cache[counted].private
             /\ counted \in Connections)
  /\ OnlyPrivateAggregated

\* a private exit connection was counted under its port, and a cycle has
\* built an entry that is not private
C13_Witness ==
  /\ ConnExit \in _counted_connections
  /\ DictGet0(_exit_port_usage, 80) = 1
  /\ pc = "publish"
  /\ \E e \in Range(new_entries) :
       e.kind = "connection" /\ ~EntryPrivate(entry_cache, e)

\* the counts of d are all still in e, none of them lower
NoCountLost(d, e) ==
  /\ DOMAIN d \subseteq DOMAIN e
  /\ \A k \in DOMAIN d : d[k] <= e[k]

\* C14: whatever the thread and the interface do (cycles, pauses, resumes,
\* changes of the sort order), no locale count and no exit-port count
\* decreases, no key leaves either map and the counted set only grows; the
\* cycle that examines a private connection leaves it in the counted set,
\* whether or not it raised a count for it.
C14_CountsOnlyGrow ==
  [][/\ NoCountLost(_client_locale_usage, _client_locale_usage')
     /\ NoCountLost(_exit_port_usage, _exit_port_usage')
     /\ _counted_connections \subseteq _counted_connections'
     /\ Builds => PrivateConnections(entry_cache', new_entries')
                    \subseteq _counted_connections']_vars

\* after a pause and a change of the sort order, a cycle has counted the
\* private exit connection under its port and the private inbound connection
\* under nothing, and both are in the counted set
C14_Witness ==
  /\ pc = "publish"
  /\ paused
  /\ _sort_order # <<"CATEGORY", "IP_ADDRESS", "UPTIME">>
  /\ {ConnInbound, ConnExit} \subseteq PrivateConnections(entry_cache, new_entries)
  /\ {ConnInbound, ConnExit} \subseteq _counted_connections
  /\ increments[ConnInbound] = 0
  /\ increments[ConnExit] = 1

\* C17: once stop() has set _halt the thread, scheduled, leaves its loop,
\* from a cycle, from the sleep between two polls and from a pause alike;
\* having left it it stays out of it, and with _halt set the step through
\* the condition's block lets no time pass: it does not wait.
C17_HaltedIsReached ==
  /\ _halt ~> pc = "done"
  /\ [][pc = "done" => pc' = "done"]_vars
  /\ [][_halt /\ pc = "wait" => elapsed' = elapsed]_vars

\* the thread has left its loop after a cycle, halted while the panel was
\* paused and before the next refresh was due
C17_Witness ==
  /\ pc = "done"
  /\ _halt
  /\ paused
  /\ elapsed < UPDATE_RATE
  /\ _entries # <<>>

\* where run() is between two cycles, or after the last
Idle == {"loop", "wait", "done"}

\* C18: with _halt set and the thread between two cycles, no cycle starts
\* and the thread no longer changes the published list; so after stop() only
\* the cycle that had passed the test of line 328 completes and publishes.
C18_AtMostOneCycle ==
  [][_halt /\ pc \in Idle =>
       /\ pc' \in Idle
       /\ _entries' # _entries => _sort_order' # _sort_order]_vars

\* stop() has returned while a cycle that has built its entries is about to
\* publish them
C18_Witness ==
  /\ _halt
  /\ pc = "publish"
  /\ new_entries # <<>>
  /\ _entries = <<>>

\* the lists a and b hold the same entries, each once
SameEntries(a, b) == Len(a) = Len(b) /\ Range(a) = Range(b)

\* C15 as stated: when the re-sort of the interface and the cycle of the
\* thread have both finished, the published list holds the entries of the
\* most recent cycle, in the order of the sort order chosen last.
C15_NoLostUpdate ==
  (dialog.pc = "closed" /\ pc \in Idle /\ cycle_lists # <<>>) =>
     /\ SameEntries(_entries, cycle_lists[Len(cycle_lists)])
     /\ _entries = sorted(entry_cache, _entries, Len(_entries), _sort_order)

\* C16: the list that a read of _entries returns is the empty list of
\* __init__ or holds exactly the entries one cycle merged, every connection
\* entry and every listed circuit entry of it, each once; so does the list
\* the interface is about to store.
C16_WholeListOfOneCycle ==
  /\ \/ _entries = <<>>
     \/ \E i \in 1..Len(cycle_lists) : SameEntries(_entries, cycle_lists[i])
  /\ \A i \in 1..Len(cycle_lists) :
       \E conns \in RaceConnLists, circuits \in RaceCircLists :
          cycle_lists[i] = MergedEntries(conns, circuits)

\* the interface has sorted the list of the first cycle and not yet stored
\* it, while the thread has published the list of the second
C16_Witness ==
  /\ dialog.pc = "sorted"
  /\ Len(cycle_lists) = 2
  /\ pc = "loop"
  /\ Len(_entries) = 3
  /\ SameEntries(_entries, cycle_lists[2])
  /\ ~SameEntries(dialog.sorted, cycle_lists[2])

\* C19 as stated: a cycle in which one entry raises still ends by
\* publishing, its list holding the entry of every listed circuit that does
\* not raise, and the thread goes on: it is never ended by the exception.
C19_FailureIsolated ==
  [][pc = "update" /\ pc' # "update" =>
       /\ pc' \in {"publish", "loop"}
       /\ pc' = "publish" =>
            \A circ \in Range(LAST_RETRIEVED_CIRCUITS') :
               IsListedCircuit(circ) /\ ~Raises(CircuitEntry(circ))
                 => CircuitEntry(circ) \in Range(new_entries')]_vars

\* a letter
IsLetter(ch) == ch \in (65..90) \cup (97..122)

\* <two-letter locale>=<non-negative decimal integer>
Conforms(entry) ==
  /\ Len(entry) >= 4
  /\ IsLetter(entry[1]) /\ IsLetter(entry[2])
  /\ entry[3] = 61
  /\ \A i \in 4..Len(entry) : IsDigit(entry[i])

RECURSIVE SumFor(_, _, _)
\* the sum of the counts of the conforming entries for locale among the first n
SumFor(entries, n, locale) ==
  IF n = 0 THEN 0
  ELSE SumFor(entries, n - 1, locale)
         + (IF Conforms(entries[n]) /\ SubSeq(entries[n], 1, 2) = locale
            THEN int(SubSeq(entries[n], 4, Len(entries[n]))) ELSE 0)

\* C20 as stated: the pre-seed does not fail, and the locale counts after it
\* have exactly the locales of the conforming entries of the CountrySummary,
\* each with the sum of the counts of its entries.
C20_PreseedExact ==
  seed.parsed \/ seed.raised =>
    LET entries == split(country_summary(seed.clients_seen), 44)
        conforming == {i \in 1..Len(entries) : Conforms(entries[i])}
    IN  /\ ~seed.raised
        /\ DOMAIN _client_locale_usage = {SubSeq(entries[i], 1, 2) : i \in conforming}
        /\ \A locale \in DOMAIN _client_locale_usage :
             _client_locale_usage[locale] = SumFor(entries, Len(entries), locale)

\* the getters of Torrc
Getters == {"getContents", "getDisplayContents", "getCorrections"}

\* C21 as stated: a getter called while the contents are unloaded, before
\* the first load() or after a load() that raised IOError, returns None and
\* raises nothing.
C21_GettersGiveNone ==
  (torrc.returned.op \in Getters /\ ~torrc.loaded) =>
     torrc.returned.none /\ torrc.returned.raised = ""

\* C28 as stated: every operation of Torrc that acquires valsLock has
\* released it when it returns or raises, so between two calls the lock is
\* free and no other thread's call waits for it for ever.
C28_LockReleased ==
  torrc.owner = 0 /\ torrc.held = 0

\* C22: a connection of no listener role and no hidden service port is
\* DIRECTORY exactly when its remote address and port resolve to a relay's
\* fingerprint and a last retrieved circuit is BUILT with that relay as its
\* only hop; a longer circuit to the relay, or one not BUILT, does not count.
C22_DirectoryRule ==
  (/\ probe.classified
   /\ ProbeRoles = {}
   /\ \A d \in DOMAIN LAST_RETRIEVED_HS_CONF :
        probe.conn.remote_port \notin LAST_RETRIEVED_HS_CONF[d].HiddenServicePort)
  => (probe.type = "DIRECTORY"
        <=> /\ ProbeFingerprint # None
            /\ \E i \in 1..Len(LAST_RETRIEVED_CIRCUITS) :
                 /\ LAST_RETRIEVED_CIRCUITS[i].status = "BUILT"
                 /\ Len(LAST_RETRIEVED_CIRCUITS[i].path) = 1
                 /\ LAST_RETRIEVED_CIRCUITS[i].path[1][1] = ProbeFingerprint)

\* a connection to a known relay was classified while the only circuits to
\* that relay were a two-hop one or one still being extended, and was not
\* made DIRECTORY
C22_Witness ==
  /\ probe.classified
  /\ ProbeRoles = {}
  /\ ProbeFingerprint = FpA
  /\ LAST_RETRIEVED_CIRCUITS \in {<<CircClient>>, <<CircDirExtended>>}
  /\ probe.type = "OUTBOUND"

\* C23 as stated: a connection of no listener role whose remote port is a
\* port of one of the last retrieved hidden services is HIDDEN.
C23_HiddenServicePort ==
  \A conn \in DOMAIN entry_cache :
     (/\ \A l \in {"OR", "DIR", "SOCKS", "CONTROL"} : conn.local_port \notin get_ports(l)
      /\ \E d \in DOMAIN LAST_RETRIEVED_HS_CONF :
           conn.remote_port \in LAST_RETRIEVED_HS_CONF[d].HiddenServicePort)
     => entry_cache[conn].type = "HIDDEN"

\* where run() is inside a cycle: in _update, or about to publish its list
InCycle == {"update", "publish"}

\* C24: a cycle starts only from the test of the loop, taken with the panel
\* not paused, the controller alive, the thread not halted and the interval
\* elapsed since the previous cycle finished; the end of a cycle restarts the
\* interval, and only a wait of the loop lets it elapse again.
C24_CycleGated ==
  /\ [][(pc \notin InCycle /\ pc' \in InCycle) =>
          /\ pc = "loop"
          /\ ~paused /\ controller_alive /\ ~_halt
          /\ elapsed >= UPDATE_RATE]_vars
  /\ [][(pc \in InCycle /\ pc' \notin InCycle) => elapsed' = 0]_vars
  /\ [][elapsed' > elapsed => pc = "wait"]_vars

\* a later cycle has started after an earlier one published its list, the
\* interval having elapsed again
C24_Witness ==
  /\ pc = "update"
  /\ _entries # <<>>
  /\ ~paused /\ controller_alive
  /\ elapsed >= UPDATE_RATE

\* the connection entries of the cycle's list whose type is among types
EntriesOfType(types) ==
  SelectSeq(new_entries, LAMBDA e : e.kind = "connection" /\ entry_cache[e.of].type \in types)

\* the remote ports of the cycle's entries of these types, in the list's order
RemotePortsOf(types) ==
  [i \in 1..Len(EntriesOfType(types)) |-> EntriesOfType(types)[i].of.remote_port]

\* the local ports of the cycle's entries of these types, in the list's order
LocalPortsOf(types) ==
  [i \in 1..Len(EntriesOfType(types)) |-> EntriesOfType(types)[i].of.local_port]

\* the step that ends a cycle which built a list
PublishStep == pc = "publish" /\ pc' # "publish"

\* C25 as stated: with application resolution on, the cycle that publishes
\* asks once, for the local ports of its SOCKS and CONTROL entries and the
\* remote ports of its HIDDEN entries.
C25_QueryOfOwnPorts ==
  [][(PublishStep /\ CONFIG.resolveApps) =>
       /\ port_queries'.count = port_queries.count + 1
       /\ port_queries'.last.local_ports = LocalPortsOf({"SOCKS", "CONTROL"})
       /\ port_queries'.last.remote_ports = RemotePortsOf({"HIDDEN"})]_vars

\* C25 amended: with application resolution on, the cycle that publishes
\* asks once, for the remote ports of its SOCKS and CONTROL entries (the
\* ports of the applications on this host) and the local ports of its HIDDEN
\* entries; with it off, and in every other step, nothing is asked.
C25_QueryOfPeerPorts ==
  /\ [][(PublishStep /\ CONFIG.resolveApps) =>
          /\ port_queries'.count = port_queries.count + 1
          /\ port_queries'.last.local_ports = RemotePortsOf({"SOCKS", "CONTROL"})
          /\ port_queries'.last.remote_ports = LocalPortsOf({"HIDDEN"})]_vars
  /\ [][(~PublishStep \/ ~CONFIG.resolveApps) => port_queries' = port_queries]_vars

\* two cycles have published and each asked once; the last asked for the
\* ports of the controller and of the application, in the order of its list
C25_Witness ==
  /\ CONFIG.resolveApps
  /\ pc = "loop"
  /\ port_queries.count = 2
  /\ port_queries.last.local_ports = <<50002, 50001>>
  /\ port_queries.last.remote_ports = <<>>

\* C26 as stated: get_lines() of every entry answers, with one CONNECTION
\* line for a connection and, for a circuit of any status and any path, a
\* CIRCUIT_HEADER line followed by one line per hop, in the path's order.
C26_LinesOfEveryEntry ==
  /\ \A conn \in DOMAIN entry_cache :
       /\ Len(entry_cache[conn].lines) = 1
       /\ entry_cache[conn].lines[1].line_type = "CONNECTION"
  /\ \A circ \in Range(LAST_RETRIEVED_CIRCUITS) :
       /\ ~Raises(CircuitEntry(circ))
       /\ Len(CircuitEntry_get_lines(circ)) = 1 + Len(circ.path)
       /\ CircuitEntry_get_lines(circ)[1].line_type = "CIRCUIT_HEADER"
       /\ \A i \in 1..Len(circ.path) :
            /\ CircuitEntry_get_lines(circ)[i + 1].line_type = "CIRCUIT"
            /\ CircuitEntry_get_lines(circ)[i + 1].fingerprint = circ.path[i][1]

\* the address and port of a connection, as the tuple to order by
Endpoint(conn) == conn.remote_address \o <<conn.remote_port>>

\* C27 as stated: the IP_ADDRESS sort values of two entries that are not
\* private differ when their remote addresses or ports differ, and are in
\* the order of (octet1, octet2, octet3, octet4, port).
C27_FaithfulPacking ==
  compared.taken =>
     /\ Endpoint(compared.a) # Endpoint(compared.b) => compared.key_a # compared.key_b
     /\ SeqLt(compared.key_a, compared.key_b)
          <=> SeqLt(Endpoint(compared.a), Endpoint(compared.b))

\* C29 as stated: with the thread not halted and, from some point on, the
\* panel not paused and the controller alive, cycles start again and again;
\* and a run of the resolver that is alive and has not been fetched leads
\* to a list built from it being published.
C29_RefreshLive ==
  /\ ([]~_halt /\ <>[](~paused /\ controller_alive)) => []<>(pc = "update")
  /\ \A n \in 0..(MaxRuns + 1) :
       [](resolver.alive /\ resolver.run_counter = n /\ _last_resource_fetch # n)
         => <>(_last_resource_fetch = n)
====
